---- MODULE Spec2Model ----
(***************************************************************************)
(* A model of the signal-and-execution core of the edgexxx trading bot:    *)
(* the API rate limiter (rate_limiter.py), the two signal engines          *)
(* (rope_line_strategy.py, strategy.py) and the order manager              *)
(* (order_manager.py).                                                     *)
(*                                                                         *)
(* Time is counted in integer ticks.  The limiter's 1.0 s window is        *)
(* SecondTicks ticks long and its 60.0 s window MinuteTicks ticks long;    *)
(* the code reads the two lengths only in wait_time = window - age and in  *)
(* the test wait_time > 0, so every statement below is made in terms of    *)
(* the two lengths.                                                        *)
(***************************************************************************)
EXTENDS Integers, Sequences, FiniteSets, TLC

\* ------------------------------------------------------------------ bounds
\* largest max_per_second / max_per_minute a RateLimiter is constructed with
MaxPerSecond == 2
MaxPerMinute == 3
\* length of the per-second and of the per-minute window, in ticks
SecondTicks == 2
MinuteTicks == 5
\* the clock stops at MaxTime; at most MaxCalls acquire() calls are started
MaxTime == 8
MaxCalls == 4
\* coroutines that call acquire() concurrently
NumCallers == 2
\* rope_period the strategies are constructed with, and the longest candle
\* history (rows of the DataFrame) that is fed to them
RopePeriod == 2
MaxRows == 4
\* ma_short and ma_long the momentum strategy is constructed with
MaShort == 1
MaLong == 2
\* orders sent to the exchange in one run, and the coroutines that call
\* OrderManager.execute_signal concurrently
MaxOrders == 3
NumTasks == 2
\* price updates that reach the crossing check in one run of the bot
MaxUpdates == 3
\* length, in ticks, of the 5 seconds during which check_and_execute skips
\* an instrument after a signal
DedupTicks == 3

VARIABLES
    \* RateLimiter (rate_limiter.py)
    max_per_second, max_per_minute, second_queue, minute_queue,
    total_requests, total_delays,
    \* the wall clock time.time() and the coroutines inside acquire()
    now, callers, pc, wake,
    \* history: acquire() calls started, admission timestamps recorded,
    \* and the age each timestamp had when it left a queue
    started, admissions, evicted,
    \* the candle DataFrame of the instrument, the strategy class in use and
    \* its contract_states dict
    df, engine, contract_states,
    \* the generate_signal call that has just returned (arguments, result),
    \* and how many non-NONE signals each candle timestamp has produced
    signal_out, emitted,
    \* OrderManager (order_manager.py): positions, trade_history, the count
    \* of orders the exchange has accepted (it numbers order ids and stamps
    \* entry and close times), the coroutines inside execute_signal with
    \* their locals, and the orders set aside for the calls started
    positions, trade_history, order_seq, om_tasks, task, reserved,
    \* the execute_signal call that has just ended
    returned,
    \* RealtimeTradingBot (main.py): current_prices, rope_lines,
    \* last_signal_time and price_update_count per instrument, the
    \* check_and_execute coroutines scheduled on the loop and not yet
    \* started, and the arguments of those suspended inside execute_signal
    current_prices, rope_lines, last_signal_time, price_update_count,
    pending, evals,
    \* the flag is_running, whether the WebSocket subscriptions deliver
    \* messages, and whether the event loop of asyncio.run is running
    is_running, ws_connected, loop_running,
    \* Backtest (backtest.py): initial_capital, capital, trades,
    \* equity_curve, the locals of run() with its position in the loop, and
    \* the report run() returns
    initial_capital, capital, trades, equity_curve, run, results,
    \* PrecisionManager (precision_manager.py): the registration table, and
    \* the last call with what it returned
    contract_info, pm_out,
    \* the last check_stop_loss / check_take_profit call with what it returned
    check_out

rlVars == <<max_per_second, max_per_minute, second_queue, minute_queue,
            total_requests, total_delays, now, callers, pc, wake,
            started, admissions, evicted>>

sigVars == <<df, engine, contract_states, signal_out, emitted>>

omVars == <<positions, trade_history, order_seq, om_tasks, task, reserved,
           returned>>

lifeVars == <<is_running, ws_connected, loop_running>>
liveVars == <<current_prices, rope_lines, last_signal_time,
             price_update_count, pending, evals, lifeVars>>

btVars == <<initial_capital, capital, trades, equity_curve, run, results>>

pmVars == <<contract_info, pm_out>>
riskVars == <<check_out>>

\* what the actions of one component leave alone in the others
nonLimiterVars == <<sigVars, omVars, liveVars, btVars, pmVars, riskVars>>
nonSignalVars == <<rlVars, omVars, liveVars, btVars, pmVars, riskVars>>
nonOrderVars == <<rlVars, sigVars, liveVars, btVars, pmVars, riskVars>>
nonLiveVars == <<sigVars, btVars, pmVars, riskVars>>
nonBacktestVars == <<rlVars, omVars, liveVars, pmVars, riskVars>>
nonPrecisionVars == <<rlVars, sigVars, omVars, liveVars, btVars, riskVars>>
nonRiskVars == <<rlVars, omVars, liveVars, btVars, pmVars>>

vars == <<rlVars, sigVars, omVars, liveVars, btVars, pmVars, riskVars>>

\* ------------------------------------------------------- rate_limiter.py

\* wait_time = 1.0 - (current_time - oldest)
WaitTimeNoAge(window, current_time, oldest) == window - 1 - (current_time - oldest)
WaitTime(window, current_time, oldest) == window - (current_time - oldest)

\* collections.deque(maxlen=...).append: a full deque discards its left end
DequeAppend(queue, x, maxlen) ==
    IF Len(queue) >= maxlen THEN Append(Tail(queue), x) ELSE Append(queue, x)

\* One while loop of acquire() run from its top to its exit or to its first
\* await: the queue it leaves and the time to sleep (0: the loop exited).
RECURSIVE CheckWindow(_, _, _, _)
CheckWindow(queue, limit, window, current_time) ==
    IF Len(queue) >= limit
    THEN IF WaitTime(window, current_time, Head(queue)) > 0
         THEN [queue |-> queue,
               wait |-> WaitTime(window, current_time, Head(queue))]
         ELSE CheckWindow(Tail(queue), limit, window, current_time)
    ELSE [queue |-> queue, wait |-> 0]

\* ages (at time t) of the entries popleft() removed from before to after
PoppedAges(before, after, t) ==
    {t - before[i] : i \in 1..(Len(before) - Len(after))}

\* age of the entry append() discards, if the deque is full
DiscardedAges(queue, maxlen, t) ==
    IF Len(queue) >= maxlen THEN {t - Head(queue)} ELSE {}

\* acquire() from the top of the loop named by phase up to its next await or
\* its return; current_time was just read, so it equals now.
Proceed(p, phase) ==
    LET s == IF phase = "second"
             THEN CheckWindow(second_queue, max_per_second, SecondTicks, now)
             ELSE [queue |-> second_queue, wait |-> 0]
        m == CheckWindow(minute_queue, max_per_minute, MinuteTicks, now)
        popS == PoppedAges(second_queue, s.queue, now)
        popM == PoppedAges(minute_queue, m.queue, now)
    IN  IF s.wait > 0
        THEN /\ second_queue' = s.queue
             /\ pc' = [pc EXCEPT ![p] = "sleep_second"]
             /\ wake' = [wake EXCEPT ![p] = now + s.wait]
             /\ evicted' = [evicted EXCEPT !.second = @ \cup popS]
             /\ UNCHANGED <<minute_queue, total_requests, admissions>>
        ELSE IF m.wait > 0
        THEN /\ second_queue' = s.queue
             /\ minute_queue' = m.queue
             /\ pc' = [pc EXCEPT ![p] = "sleep_minute"]
             /\ wake' = [wake EXCEPT ![p] = now + m.wait]
             /\ evicted' = [second |-> evicted.second \cup popS,
                            minute |-> evicted.minute \cup popM]
             /\ UNCHANGED <<total_requests, admissions>>
        ELSE /\ second_queue' = DequeAppend(s.queue, now, max_per_second)
             /\ minute_queue' = DequeAppend(m.queue, now, max_per_minute)
             /\ total_requests' = total_requests + 1
             /\ pc' = [pc EXCEPT ![p] = "idle"]
             /\ wake' = [wake EXCEPT ![p] = 0]
             /\ admissions' = Append(admissions, now)
             /\ evicted' =
                  [second |-> evicted.second \cup popS
                                \cup DiscardedAges(s.queue, max_per_second, now),
                   minute |-> evicted.minute \cup popM
                                \cup DiscardedAges(m.queue, max_per_minute, now)]

\* acquire(): lines 43-76 up to the first await
acquire(p) ==
    /\ pc[p] = "idle"
    /\ started' = started + 1
    /\ Proceed(p, "second")
    /\ UNCHANGED <<max_per_second, max_per_minute, total_delays, now, callers>>

\* a coroutine calls acquire()
Acquire(p) ==
    /\ started < MaxCalls
    /\ acquire(p)
    /\ UNCHANGED nonLimiterVars

\* asyncio.sleep(wait_time) returns, at its due time or later: lines 53-54 or
\* 67-68, then the loop the coroutine sleeps in is run again from its top
WakeUp(p) ==
    /\ pc[p] \in {"sleep_second", "sleep_minute"}
    /\ now >= wake[p]
    /\ total_delays' = total_delays + 1
    /\ Proceed(p, IF pc[p] = "sleep_second" THEN "second" ELSE "minute")
    /\ UNCHANGED <<max_per_second, max_per_minute, now, callers, started>>
    /\ UNCHANGED nonLimiterVars

\* reset_stats(): the two counters are zeroed
ResetStatsClearsQueues ==
    /\ total_requests > 0 \/ total_delays > 0
    /\ total_requests' = 0
    /\ total_delays' = 0
    /\ second_queue' = <<>>
    /\ minute_queue' = <<>>
    /\ UNCHANGED <<max_per_second, max_per_minute, now, callers, pc, wake,
                   started, admissions, evicted>>
    /\ UNCHANGED nonLimiterVars
ResetStats ==
    /\ total_requests > 0 \/ total_delays > 0
    /\ total_requests' = 0
    /\ total_delays' = 0
    /\ UNCHANGED <<max_per_second, max_per_minute, second_queue, minute_queue,
                   now, callers, pc, wake, started, admissions, evicted>>
    /\ UNCHANGED nonLimiterVars

\* the wall clock advances
Tick ==
    /\ now < MaxTime
    /\ now' = now + 1
    /\ UNCHANGED <<max_per_second, max_per_minute, second_queue, minute_queue,
                   total_requests, total_delays, callers, pc, wake,
                   started, admissions, evicted>>
    /\ UNCHANGED nonLimiterVars

\* RateLimiter.__init__ with the limits drawn from the given sets, and the
\* coroutines ps that will call acquire()
InitLimiter(ps, per_second, per_minute) ==
    /\ max_per_second \in per_second
    /\ max_per_minute \in per_minute
    /\ second_queue = <<>>
    /\ minute_queue = <<>>
    /\ total_requests = 0
    /\ total_delays = 0
    /\ now = 0
    /\ callers = ps
    /\ pc = [p \in ps |-> "idle"]
    /\ wake = [p \in ps |-> 0]
    /\ started = 0
    /\ admissions = <<>>
    /\ evicted = [second |-> {}, minute |-> {}]

\* the callers of acquire() and the clock
NextAcquire ==
    \/ \E p \in callers : Acquire(p)
    \/ \E p \in callers : WakeUp(p)
    \/ Tick

NextLimiter ==
    \/ NextAcquire
    \/ ResetStats

\* ------------------------------------------------ rope_line_strategy.py
\* Prices are integers.  A rope line (highest + lowest) / 2 is carried as
\* twice its value, highest + lowest, and a price is doubled where the code
\* compares it with the line.

Prices == 1..2
PriceInputs == 0..3
Positions == {"EMPTY", "LONG", "SHORT"}
SignalContracts == {"10000001"}

\* the rows a DataFrame can hold: low <= close <= high
Candles == {r \in [high : Prices, low : Prices, close : Prices] :
                r.low <= r.close /\ r.close <= r.high}

Row(ts, c) == [ts |-> ts, high |-> c.high, low |-> c.low, close |-> c.close]

SetMax(S) == CHOOSE x \in S : \A y \in S : y <= x
SetMin(S) == CHOOSE x \in S : \A y \in S : x <= y

\* df.iloc[-n:] of a frame with at least n rows
LastRows(frame, n) == SubSeq(frame, Len(frame) - n + 1, Len(frame))

\* RopeLineStrategy.calculate_rope_line: twice (HHV(high) + LLV(low)) / 2,
\* and 0 for the 0.0 returned on too little data
calculate_rope_line_all_rows(frame, rope_period, exclude_current) ==
    IF Len(frame) < rope_period + (IF exclude_current THEN 1 ELSE 0) THEN 0
    ELSE LET recent_data == LastRows(frame, rope_period)
         IN  SetMax({recent_data[i].high : i \in 1..rope_period})
               + SetMin({recent_data[i].low : i \in 1..rope_period})
calculate_rope_line(frame, rope_period, exclude_current) ==
    LET required_length ==
            IF exclude_current THEN rope_period + 1 ELSE rope_period
    IN  IF Len(frame) < required_length THEN 0
        ELSE LET df_for_calc == IF exclude_current
                                THEN SubSeq(frame, 1, Len(frame) - 1)
                                ELSE frame
             IN  IF Len(df_for_calc) < rope_period THEN 0
                 ELSE LET recent_data == LastRows(df_for_calc, rope_period)
                      IN  SetMax({recent_data[i].high : i \in 1..rope_period})
                            + SetMin({recent_data[i].low : i \in 1..rope_period})

\* lines 174-213: the signal for a price against the (doubled) rope line
CrossingSignalEqualIsLong(rope_line, current_position, current_price) ==
    IF 2 * current_price >= rope_line
    THEN IF current_position \in {"EMPTY", "SHORT"} THEN "LONG" ELSE "NONE"
    ELSE IF current_position \in {"EMPTY", "LONG"} THEN "SHORT" ELSE "NONE"
CrossingSignal(rope_line, current_position, current_price) ==
    IF 2 * current_price > rope_line
    THEN IF current_position = "EMPTY" THEN "LONG"
         ELSE IF current_position = "SHORT" THEN "LONG"
         ELSE "NONE"
    ELSE IF 2 * current_price < rope_line
    THEN IF current_position = "EMPTY" THEN "SHORT"
         ELSE IF current_position = "LONG" THEN "SHORT"
         ELSE "NONE"
    ELSE "NONE"

\* lines 161-165: a signal was already emitted for this candle timestamp
AlreadySignalledNever(state, current_timestamp) == FALSE
AlreadySignalled(state, current_timestamp) ==
    /\ "last_signal_time" \in DOMAIN state
    /\ state.last_signal_time = current_timestamp

\* contract_states.get(contract_id), {} when the key is new (lines 147-150)
StateOf(states, contract_id) ==
    IF contract_id \in DOMAIN states THEN states[contract_id] ELSE <<>>

\* RopeLineStrategy.generate_signal: the signal returned and the
\* contract_states it leaves (last_update_time, a log field, is left out)
RopeGenerateSignal(rope_period, states, contract_id, frame, current_position, current_price) ==
    LET rope_line == calculate_rope_line(frame, rope_period, TRUE)
    IN  IF rope_line = 0 THEN [signal |-> "NONE", states |-> states]
        ELSE
        LET state == [rope_line |-> rope_line, current_price |-> current_price]
                        @@ StateOf(states, contract_id)
            current_timestamp == frame[Len(frame)].ts
            signal == CrossingSignal(rope_line, current_position, current_price)
        IN  IF AlreadySignalled(state, current_timestamp)
            THEN [signal |-> "NONE",
                  states |-> (contract_id :> state) @@ states]
            ELSE IF signal # "NONE"
            THEN [signal |-> signal,
                  states |-> (contract_id :>
                                ([last_signal_time |-> current_timestamp] @@ state))
                             @@ states]
            ELSE [signal |-> "NONE",
                  states |-> (contract_id :> state) @@ states]

\* the dedup guard of an instrument: the candle timestamp of its last
\* signal, 0 when the state has none
GuardOf(states, contract_id) ==
    IF "last_signal_time" \in DOMAIN StateOf(states, contract_id)
    THEN states[contract_id].last_signal_time
    ELSE 0

NoCall == [called |-> FALSE]

\* df.index[-1] as the caller sees it; 0 stands for none, the frame being
\* empty
LastTimestamp(frame) == IF Len(frame) = 0 THEN 0 ELSE frame[Len(frame)].ts

\* the price a caller of Strategy.generate_signal passes: the close of the
\* last row, and any price when the frame has no row
LastClose(frame) ==
    IF Len(frame) = 0 THEN Prices ELSE {frame[Len(frame)].close}

\* a candle closes and the next one opens: the frame gains a row
AppendCandle ==
    /\ Len(df) < MaxRows
    /\ \E c \in Candles : df' = Append(df, Row(Len(df) + 1, c))
    /\ signal_out' = NoCall
    /\ UNCHANGED <<engine, contract_states, emitted>>
    /\ UNCHANGED nonSignalVars

\* the candle in progress moves: the last row changes, its timestamp stays
UpdateCandle ==
    /\ Len(df) > 0
    /\ \E c \in Candles :
          /\ Row(Len(df), c) # df[Len(df)]
          /\ df' = [df EXCEPT ![Len(df)] = Row(Len(df), c)]
    /\ signal_out' = NoCall
    /\ UNCHANGED <<engine, contract_states, emitted>>
    /\ UNCHANGED nonSignalVars

\* the caller evaluates RopeLineStrategy.generate_signal on the frame
GenerateSignal(contract_id, current_position, current_price) ==
    /\ engine = "rope"
    /\ LET r == RopeGenerateSignal(RopePeriod, contract_states, contract_id,
                                   df, current_position, current_price)
           ts == LastTimestamp(df)
       IN  /\ contract_states' = r.states
           /\ signal_out' =
                [called |-> TRUE, contract_id |-> contract_id,
                 current_position |-> current_position,
                 current_price |-> current_price, timestamp |-> ts,
                 guarded |-> AlreadySignalled(
                                StateOf(contract_states, contract_id), ts),
                 changed |-> r.states # contract_states,
                 guard_changed |-> GuardOf(r.states, contract_id)
                                     # GuardOf(contract_states, contract_id),
                 signal |-> r.signal]
           /\ emitted' = IF r.signal \in {"NONE", "IndexError"} THEN emitted
                         ELSE [emitted EXCEPT ![contract_id][ts] = @ + 1]
    /\ UNCHANGED <<df, engine>>
    /\ UNCHANGED nonSignalVars

\* RopeLineStrategy.__init__ / Strategy.__init__ (the strategy class is one
\* of engines), before any candle
InitSignal(engines) ==
    /\ df = <<>>
    /\ engine \in engines
    /\ contract_states = <<>>
    /\ signal_out = NoCall
    /\ emitted = [c \in SignalContracts |-> [ts \in 1..MaxRows |-> 0]]

NextRope ==
    \/ AppendCandle
    \/ UpdateCandle
    \/ \E c \in SignalContracts, pos \in Positions, price \in PriceInputs :
          GenerateSignal(c, pos, price)

\* the module instance rate_limiter = RateLimiter(), not yet used
InitLimiterUnused == InitLimiter({1}, {MaxPerSecond}, {MaxPerMinute})

\* ------------------------------------------------------------ strategy.py

\* sum of the close column over rows from..to
RECURSIVE CloseSum(_, _, _)
CloseSum(frame, from, to) ==
    IF from > to THEN 0 ELSE frame[from].close + CloseSum(frame, from + 1, to)

\* the mbo column at row n, times ma_short * ma_long:
\* rolling(ma_short).mean() - rolling(ma_long).mean()
MboAt(frame, n, ma_short, ma_long) ==
    ma_long * CloseSum(frame, n - ma_short + 1, n)
      - ma_short * CloseSum(frame, n - ma_long + 1, n)

\* Strategy.calculate_mbo_mbi: (mbo, mbi) of the last row, both times
\* ma_short * ma_long; nan marks the NaN that diff() gives while the row
\* before the last has no ma_long window yet
calculate_mbo_mbi(frame, ma_short, ma_long) ==
    IF Len(frame) < ma_long THEN [mbo |-> 0, mbi |-> 0, nan |-> FALSE]
    ELSE IF Len(frame) - 1 < ma_long
    THEN [mbo |-> MboAt(frame, Len(frame), ma_short, ma_long),
          mbi |-> 0, nan |-> TRUE]
    ELSE [mbo |-> MboAt(frame, Len(frame), ma_short, ma_long),
          mbi |-> MboAt(frame, Len(frame), ma_short, ma_long)
                    - MboAt(frame, Len(frame) - 1, ma_short, ma_long),
          nan |-> FALSE]

\* Strategy.calculate_rope_line: twice the last value of
\* (high.rolling(rope_period).max() + low.rolling(rope_period).min()) / 2
StrategyRopeLine(frame, rope_period) ==
    IF Len(frame) < rope_period THEN 0
    ELSE LET window == LastRows(frame, rope_period)
         IN  SetMax({window[i].high : i \in 1..rope_period})
               + SetMin({window[i].low : i \in 1..rope_period})

\* lines 158-209: the signal for momentum mbi and a price against the line
MomentumSignalFlipsAgainst(m, rope_line, current_position, current_price) ==
    IF ~m.nan /\ m.mbi > 0
    THEN IF 2 * current_price > rope_line
         THEN IF current_position = "LONG" THEN "NONE" ELSE "LONG"
         ELSE IF 2 * current_price < rope_line /\ current_position = "LONG"
         THEN "SHORT"
         ELSE "NONE"
    ELSE IF ~m.nan /\ m.mbi < 0
    THEN IF 2 * current_price < rope_line
         THEN IF current_position = "SHORT" THEN "NONE" ELSE "SHORT"
         ELSE IF 2 * current_price > rope_line /\ current_position = "SHORT"
         THEN "LONG"
         ELSE "NONE"
    ELSE "NONE"
MomentumSignal(m, rope_line, current_position, current_price) ==
    IF ~m.nan /\ m.mbi > 0
    THEN IF 2 * current_price > rope_line
         THEN IF current_position = "EMPTY" THEN "LONG"
              ELSE IF current_position = "SHORT" THEN "LONG"
              ELSE "NONE"
         ELSE IF 2 * current_price < rope_line /\ current_position = "LONG"
         THEN "CLOSE_LONG"
         ELSE "NONE"
    ELSE IF ~m.nan /\ m.mbi < 0
    THEN IF 2 * current_price < rope_line
         THEN IF current_position = "EMPTY" THEN "SHORT"
              ELSE IF current_position = "LONG" THEN "SHORT"
              ELSE "NONE"
         ELSE IF 2 * current_price > rope_line /\ current_position = "SHORT"
         THEN "CLOSE_SHORT"
         ELSE "NONE"
    ELSE "NONE"

\* Strategy.generate_signal: the signal returned (or the exception raised)
\* and the contract_states it leaves
MomentumGenerateSignal(states, contract_id, frame, current_position, current_price) ==
    LET m == calculate_mbo_mbi(frame, MaShort, MaLong)
        rope_line == StrategyRopeLine(frame, RopePeriod)
        state == [mbo |-> m.mbo, mbi |-> m.mbi, mbi_nan |-> m.nan,
                  rope_line |-> rope_line, current_price |-> current_price]
                    @@ StateOf(states, contract_id)
        current_timestamp == frame[Len(frame)].ts
        signal == MomentumSignal(m, rope_line, current_position, current_price)
    IN  IF Len(frame) = 0
        THEN \* df.index[-1] of an empty frame raises, after the state
             \* was written
             [signal |-> "IndexError",
              states |-> (contract_id :> state) @@ states]
        ELSE IF AlreadySignalled(state, current_timestamp)
        THEN [signal |-> "NONE", states |-> (contract_id :> state) @@ states]
        ELSE IF signal # "NONE"
        THEN [signal |-> signal,
              states |-> (contract_id :>
                            ([last_signal_time |-> current_timestamp] @@ state))
                         @@ states]
        ELSE [signal |-> "NONE", states |-> (contract_id :> state) @@ states]

\* the caller (Backtest.run, test_strategy) evaluates Strategy.generate_signal
\* on the frame, with the close of its last row as the price
GenerateSignalMomentum(contract_id, current_position) ==
    /\ engine = "momentum"
    /\ \E current_price \in LastClose(df) :
       LET r == MomentumGenerateSignal(contract_states, contract_id, df,
                                       current_position, current_price)
           ts == LastTimestamp(df)
       IN  /\ contract_states' = r.states
           /\ signal_out' =
                [called |-> TRUE, contract_id |-> contract_id,
                 current_position |-> current_position,
                 current_price |-> current_price, timestamp |-> ts,
                 guarded |-> AlreadySignalled(
                                StateOf(contract_states, contract_id), ts),
                 changed |-> r.states # contract_states,
                 guard_changed |-> GuardOf(r.states, contract_id)
                                     # GuardOf(contract_states, contract_id),
                 signal |-> r.signal]
           /\ emitted' = IF r.signal \in {"NONE", "IndexError"} THEN emitted
                         ELSE [emitted EXCEPT ![contract_id][ts] = @ + 1]
    /\ UNCHANGED <<df, engine>>
    /\ UNCHANGED nonSignalVars

NextMomentum ==
    \/ AppendCandle
    \/ UpdateCandle
    \/ \E c \in SignalContracts, pos \in Positions :
          GenerateSignalMomentum(c, pos)

\* ------------------------------------------------------- order_manager.py
\* the two instruments of config.py and the order size configured for each,
\* in hundredths of a coin (0.01 BTC, 0.1 ETH)
Contracts == {"10000001", "10000002"}
PairOrderSize == [c \in Contracts |-> IF c = "10000001" THEN 1 ELSE 10]

\* the tick size configured for each, in the units of prices with slippage
\* applied (1/1000): 0.1 and 0.01
PairTickSize == [c \in Contracts |-> IF c = "10000001" THEN 100 ELSE 10]

\* current_price values the caller passes to execute_signal
TickerPrices == {1}

SignalTypes == {"NONE", "LONG", "SHORT", "CLOSE_LONG", "CLOSE_SHORT"}

\* config.strategy.slippage = 0.001, as a fraction
Slippage == [num |-> 1, den |-> 1000]

\* precision_manager.apply_slippage: price * (1 + pct) for BUY and
\* price * (1 - pct) for SELL; the result is in units of 1/pct.den
apply_slippage(price, side, slippage_pct) ==
    IF side = "BUY"
    THEN price * (slippage_pct.den + slippage_pct.num)
    ELSE price * (slippage_pct.den - slippage_pct.num)

\* self.positions is a dict keyed by contract id; it is carried as the set
\* of its values, each of which names its key in contract_id
HasKey(records, key) == \E r \in records : r.contract_id = key
Lookup(records, key) == CHOOSE r \in records : r.contract_id = key

\* self.positions[key] = value that keeps the record stored before
DictSetKeepOld(records, key, value) == records \cup {value}

\* self.positions[key] = value
DictSet(records, key, value) ==
    {r \in records : r.contract_id # key} \cup {value}

\* del self.positions[key], for a key that is present
DictDel(records, key) == {r \in records : r.contract_id # key}

\* OrderManager.get_position
get_position(contract_id) ==
    IF HasKey(positions, contract_id)
    THEN Lookup(positions, contract_id).position
    ELSE "EMPTY"

\* some coroutine is between the two legs of a flip of contract_id: its
\* closing order was accepted and its opening order is not yet answered
MidFlip(contract_id) ==
    \E p \in om_tasks : /\ task[p].pc = "opening"
                        /\ task[p].contract_id = contract_id
                        /\ task[p].closed

\* the side of the order that opens signal, and of the order that closes a
\* position
OpenSide(signal) == IF signal = "LONG" THEN "BUY" ELSE "SELL"
CloseSide(position) == IF position = "LONG" THEN "SELL" ELSE "BUY"

\* execute_signal calls close_position first: a flip (LONG while SHORT,
\* SHORT while LONG) or a plain close (CLOSE_LONG while LONG, CLOSE_SHORT
\* while SHORT)
IsFlipNever(signal, current_position) == FALSE
IsFlip(signal, current_position) ==
    \/ signal = "LONG" /\ current_position = "SHORT"
    \/ signal = "SHORT" /\ current_position = "LONG"
IsCloseAnyPosition(signal, current_position) ==
    /\ signal \in {"CLOSE_LONG", "CLOSE_SHORT"}
    /\ current_position \in {"LONG", "SHORT"}
IsClose(signal, current_position) ==
    \/ signal = "CLOSE_LONG" /\ current_position = "LONG"
    \/ signal = "CLOSE_SHORT" /\ current_position = "SHORT"

\* orders an execute_signal call can send
OrdersNeeded(signal, current_position) ==
    IF IsFlip(signal, current_position) THEN 2
    ELSE IF signal \in {"LONG", "SHORT"} \/ IsClose(signal, current_position)
         THEN 1 ELSE 0

IdleTask == [pc |-> "idle"]
\* the local position_info of a call that has not entered close_position
NoPositionInfo == [position |-> "EMPTY"]
NoReturn == [called |-> FALSE]

\* what the call of task p reports when it ends
Returned(t, result) ==
    [called |-> TRUE, contract_id |-> t.contract_id, signal |-> t.signal,
     current_position |-> t.current_position,
     read_mid_flip |-> t.read_mid_flip, result |-> result,
     rejected |-> t.rejected, closed |-> t.closed,
     orders_sent |-> t.orders_sent,
     before_position |-> t.before_position,
     before_trades |-> t.before_trades]

\* the entry of trade_history that close_position appends for position_info
TradeRecord(position_info, close_price, close_time) ==
    [symbol |-> position_info.contract_id,
     action |-> IF position_info.position = "LONG"
                THEN "CLOSE_LONG" ELSE "CLOSE_SHORT",
     entry_price |-> position_info.entry_price,
     close_price |-> close_price,
     size |-> position_info.size,
     pnl |-> IF position_info.position = "LONG"
             THEN (close_price - position_info.entry_price)
                  * position_info.size
             ELSE (position_info.entry_price - close_price)
                  * position_info.size,
     entry_time |-> position_info.entry_time,
     close_time |-> close_time]

\* execute_signal(contract_id, symbol, signal, current_price, order_size,
\* slippage) up to its first await of client.create_order, or to its return
\* when it sends no order
execute_signal(p, contract_id, signal, current_price) ==
    LET current_position == get_position(contract_id)
        t == [pc |-> "opening", contract_id |-> contract_id,
              signal |-> signal, current_price |-> current_price,
              order_size |-> PairOrderSize[contract_id],
              current_position |-> current_position,
              read_mid_flip |-> MidFlip(contract_id),
              position_info |-> NoPositionInfo, close_price |-> 0,
              closed |-> FALSE, rejected |-> FALSE, orders_sent |-> 1,
              before_position |->
                  {r \in positions : r.contract_id = contract_id},
              before_trades |-> Len(trade_history)]
    IN
    /\ task[p].pc = "idle"
    /\ reserved + OrdersNeeded(signal, current_position) <= MaxOrders
    /\ reserved' = reserved + OrdersNeeded(signal, current_position)
    /\ IF IsFlip(signal, current_position)
          \/ IsClose(signal, current_position)
       THEN \* close_position up to place_order's await
            LET position_info == Lookup(positions, contract_id) IN
            /\ task' = [task EXCEPT ![p] =
                  [t EXCEPT !.pc = "closing",
                            !.position_info = position_info,
                            !.close_price =
                                apply_slippage(current_price,
                                    CloseSide(position_info.position),
                                    Slippage)]]
            /\ returned' = NoReturn
       ELSE IF signal \in {"LONG", "SHORT"}
       THEN /\ task' = [task EXCEPT ![p] = t]
            /\ returned' = NoReturn
       ELSE /\ task' = task
            /\ returned' = Returned([t EXCEPT !.orders_sent = 0], "False")
    /\ UNCHANGED <<positions, trade_history, order_seq, om_tasks>>

\* a coroutine calls execute_signal
ExecuteSignal(p, contract_id, signal, current_price) ==
    /\ execute_signal(p, contract_id, signal, current_price)
    /\ UNCHANGED nonOrderVars

\* client.create_order answers the closing order of task p (ok: code
\* SUCCESS); close_position finishes, and a flip goes on to send its opening
\* order
close_position_returns(p, ok) ==
    LET t == task[p]
        after == [t EXCEPT !.pc = "opening",
                           !.closed = ok, !.rejected = ~ok]
        \* the flip goes on to place_order
        next == [after EXCEPT !.orders_sent = @ + 1]
    IN
    /\ t.pc = "closing"
    /\ UNCHANGED <<om_tasks, reserved>>
    /\ IF ok
       THEN /\ order_seq' = order_seq + 1
            /\ trade_history' = Append(trade_history,
                  TradeRecord(t.position_info, t.close_price, order_seq + 1))
            /\ IF HasKey(positions, t.contract_id)
               THEN /\ positions' = DictDel(positions, t.contract_id)
                    /\ IF IsFlip(t.signal, t.current_position)
                       THEN /\ task' = [task EXCEPT ![p] = next]
                            /\ returned' = NoReturn
                       ELSE /\ task' = [task EXCEPT ![p] = IdleTask]
                            /\ returned' = Returned(after, "True")
               ELSE \* del raises KeyError, which leaves execute_signal
                    /\ positions' = positions
                    /\ task' = [task EXCEPT ![p] = IdleTask]
                    /\ returned' = Returned(after, "KeyError")
       ELSE /\ UNCHANGED <<order_seq, trade_history, positions>>
            /\ IF IsFlip(t.signal, t.current_position)
               THEN /\ task' = [task EXCEPT ![p] = next]
                    /\ returned' = NoReturn
               ELSE /\ task' = [task EXCEPT ![p] = IdleTask]
                    /\ returned' = Returned(after, "True")

CloseOrderReturns(p, ok) ==
    /\ close_position_returns(p, ok)
    /\ UNCHANGED nonOrderVars

\* client.create_order answers the opening order of task p
place_order_returns(p, ok) ==
    LET t == task[p]
        order_price == apply_slippage(t.current_price, OpenSide(t.signal),
                                      Slippage)
    IN
    /\ t.pc = "opening"
    /\ task' = [task EXCEPT ![p] = IdleTask]
    /\ UNCHANGED <<trade_history, om_tasks, reserved>>
    /\ IF ok
       THEN /\ order_seq' = order_seq + 1
            /\ positions' = DictSet(positions, t.contract_id,
                  [contract_id |-> t.contract_id,
                   position |-> t.signal,
                   entry_price |-> order_price,
                   size |-> t.order_size,
                   entry_time |-> order_seq + 1,
                   order_id |-> order_seq + 1])
            /\ returned' = Returned(t, "True")
       ELSE /\ UNCHANGED <<order_seq, positions>>
            /\ returned' = Returned([t EXCEPT !.rejected = TRUE], "False")

OpenOrderReturns(p, ok) ==
    /\ place_order_returns(p, ok)
    /\ UNCHANGED nonOrderVars

\* OrderManager.__init__, with the coroutines ps that will call it
InitOrderManager(ps) ==
    /\ positions = {}
    /\ trade_history = <<>>
    /\ order_seq = 0
    /\ om_tasks = ps
    /\ task = [p \in ps |-> IdleTask]
    /\ reserved = 0
    /\ returned = NoReturn

NextOrders ==
    \/ \E p \in om_tasks, c \in Contracts, s \in SignalTypes,
          price \in TickerPrices : ExecuteSignal(p, c, s, price)
    \/ \E p \in om_tasks, ok \in BOOLEAN : CloseOrderReturns(p, ok)
    \/ \E p \in om_tasks, ok \in BOOLEAN : OpenOrderReturns(p, ok)

\* the order manager before main.py has started
InitOrdersUnused == InitOrderManager({1})

\* ---------------------------------------------------------------- main.py
\* prices the ticker feed delivers (0: a message without a usable price),
\* and the lines initialize_data stores, as calculate_rope_line returns
\* them (highest + lowest; 0: the candles could not be loaded)
LivePrices == 0..3
LiveRopeLines == {0, 4}

\* the limits of the module instance rate_limiter = RateLimiter()
DefaultMaxPerSecond == 10
DefaultMaxPerMinute == 100


\* config.strategy.stop_loss_pct = 0.02 and take_profit_pct = 0.05, as
\* fractions
ConfigStopLossPct == [num |-> 2, den |-> 100]
ConfigTakeProfitPct == [num |-> 5, den |-> 100]

\* the candles the bot trades on are 15 minutes long (KlineType.MINUTE_15,
\* get_next_kline_time(15)): 180 times the 5 seconds of DedupTicks; the
\* candle a clock reading falls into
CandleTicks == 180 * DedupTicks
LiveCandle(t) == t \div CandleTicks

FreeEval == [stage |-> "free"]

\* price updates counted so far, over all instruments
RECURSIVE SumOver(_, _)
SumOver(f, S) ==
    IF S = {} THEN 0
    ELSE LET x == CHOOSE y \in S : TRUE IN f[x] + SumOver(f, S \ {x})
UpdateCount == SumOver(price_update_count, DOMAIN price_update_count)

\* check_and_execute, lines 313-353: the signal for a move of the price
\* from old_price to new_price across rope_line (NONE: it returns)
LiveSignal(old_price, new_price, rope_line, current_position) ==
    IF 2 * old_price <= rope_line /\ 2 * new_price > rope_line
    THEN IF current_position \in {"EMPTY", "SHORT"} THEN "LONG" ELSE "NONE"
    ELSE IF 2 * old_price >= rope_line /\ 2 * new_price < rope_line
    THEN IF current_position \in {"EMPTY", "LONG"} THEN "SHORT" ELSE "NONE"
    ELSE "NONE"

\* check_and_execute, lines 303-308: the last signal of the instrument is
\* less than 5 seconds old
RecentlySignalled(contract_id) ==
    /\ contract_id \in DOMAIN last_signal_time
    /\ now - last_signal_time[contract_id] < DedupTicks

\* handle_ticker(message) in the WebSocket thread, for a message that names
\* contract_id and carries new_price
HandleTicker(contract_id, new_price) ==
    LET old_price == IF contract_id \in DOMAIN current_prices
                     THEN current_prices[contract_id] ELSE new_price
        rope_line == rope_lines[contract_id]
        count == IF contract_id \in DOMAIN price_update_count
                 THEN price_update_count[contract_id] ELSE 0
    IN
    /\ ws_connected
    /\ UpdateCount < MaxUpdates
    /\ IF new_price <= 0
       THEN UNCHANGED <<current_prices, price_update_count, pending>>
       ELSE /\ current_prices' =
                  (contract_id :> new_price) @@ current_prices
            /\ IF rope_line = 0
               THEN UNCHANGED <<price_update_count, pending>>
               ELSE /\ price_update_count' =
                          (contract_id :> count + 1) @@ price_update_count
                    /\ pending' =
                          IF loop_running
                          THEN Append(pending,
                                  [contract_id |-> contract_id,
                                   old_price |-> old_price,
                                   new_price |-> new_price,
                                   rope_line |-> rope_line])
                          ELSE pending
    /\ UNCHANGED <<rope_lines, last_signal_time, evals, lifeVars>>
    /\ UNCHANGED <<rlVars, omVars>>
    /\ UNCHANGED nonLiveVars

\* the loop starts the oldest scheduled check_and_execute and runs it to its
\* return or, through TradingBot.execute_signal, rate_limiter.execute and
\* acquire() (which admits at once: fewer than max_per_second calls are made
\* in a run) into OrderManager.execute_signal up to the await of
\* client.create_order
CheckAndExecute(p) ==
    LET e == Head(pending)
        current_position == get_position(e.contract_id)
        signal == IF RecentlySignalled(e.contract_id) THEN "NONE"
                  ELSE LiveSignal(e.old_price, e.new_price, e.rope_line,
                                  current_position)
    IN
    /\ loop_running
    /\ pending # <<>>
    /\ pending' = Tail(pending)
    /\ p = CHOOSE q \in om_tasks :
              /\ evals[q].stage = "free"
              /\ \A r \in om_tasks : evals[r].stage = "free" => q <= r
    /\ evals[p].stage = "free"
    /\ IF signal = "NONE"
       THEN UNCHANGED <<rlVars, omVars, evals>>
       ELSE /\ acquire(p)
            /\ pc'[p] = "idle"
            /\ execute_signal(p, e.contract_id, signal, e.new_price)
            /\ evals' = [evals EXCEPT ![p] =
                  [stage |-> "running", contract_id |-> e.contract_id,
                   now |-> now]]
    /\ UNCHANGED <<current_prices, rope_lines, last_signal_time,
                   price_update_count, lifeVars>>
    /\ UNCHANGED nonLiveVars

\* OrderManager.execute_signal has returned to check_and_execute (an
\* exception is caught in TradingBot.execute_signal): line 335 or 353
FinishEvaluation(p) ==
    IF task'[p].pc = "idle"
    THEN /\ last_signal_time' =
               (evals[p].contract_id :> evals[p].now) @@ last_signal_time
         /\ evals' = [evals EXCEPT ![p] = FreeEval]
    ELSE UNCHANGED <<last_signal_time, evals>>

\* the exchange answers the closing order of the evaluation p
LiveCloseReturns(p, ok) ==
    /\ loop_running
    /\ evals[p].stage = "running"
    /\ close_position_returns(p, ok)
    /\ FinishEvaluation(p)
    /\ UNCHANGED <<current_prices, rope_lines, price_update_count, pending,
                   lifeVars>>
    /\ UNCHANGED rlVars
    /\ UNCHANGED nonLiveVars

\* the exchange answers the opening order of the evaluation p
LiveOpenReturns(p, ok) ==
    /\ loop_running
    /\ evals[p].stage = "running"
    /\ place_order_returns(p, ok)
    /\ FinishEvaluation(p)
    /\ UNCHANGED <<current_prices, rope_lines, price_update_count, pending,
                   lifeVars>>
    /\ UNCHANGED rlVars
    /\ UNCHANGED nonLiveVars

\* shutdown(), line 565: start() has caught KeyboardInterrupt or an
\* exception and shutdown() clears the flag
Shutdown ==
    /\ loop_running
    /\ is_running
    /\ is_running' = FALSE
    /\ UNCHANGED <<ws_connected, loop_running>>
    /\ UNCHANGED <<current_prices, rope_lines, last_signal_time,
                   price_update_count, pending, evals>>
    /\ UNCHANGED <<rlVars, omVars>>
    /\ UNCHANGED nonLiveVars

\* shutdown(), lines 567-595: disconnect_all() ends the subscriptions, the
\* history and the statistics are printed, and shutdown() awaits
\* session.close(), where the loop may run other coroutines
ShutdownDisconnect ==
    /\ loop_running
    /\ ~is_running
    /\ ws_connected
    /\ ws_connected' = FALSE
    /\ UNCHANGED <<is_running, loop_running>>
    /\ UNCHANGED <<current_prices, rope_lines, last_signal_time,
                   price_update_count, pending, evals>>
    /\ UNCHANGED <<rlVars, omVars>>
    /\ UNCHANGED nonLiveVars

\* shutdown(), lines 595-603: the session is closed, shutdown(), start() and
\* main() return and asyncio.run stops the loop; the coroutines still
\* scheduled or suspended are cancelled and stay where they are
ShutdownReturns ==
    /\ loop_running
    /\ ~is_running
    /\ ~ws_connected
    /\ loop_running' = FALSE
    /\ UNCHANGED <<is_running, ws_connected>>
    /\ UNCHANGED <<current_prices, rope_lines, last_signal_time,
                   price_update_count, pending, evals>>
    /\ UNCHANGED <<rlVars, omVars>>
    /\ UNCHANGED nonLiveVars

\* RealtimeTradingBot.__init__ and start() up to line 525 (running: TRUE),
\* or __init__ alone: the caches are empty, initialize_data has stored a
\* line from lines for each instrument, and the coroutines ps are available
\* to the loop
InitLive(ps, lines, running) ==
    /\ current_prices = <<>>
    /\ rope_lines \in [Contracts -> lines]
    /\ last_signal_time = <<>>
    /\ price_update_count = <<>>
    /\ pending = <<>>
    /\ evals = [p \in ps |-> FreeEval]
    /\ is_running = running
    /\ ws_connected = running
    /\ loop_running = running

NextLive ==
    \/ \E c \in Contracts, price \in LivePrices : HandleTicker(c, price)
    \/ \E p \in om_tasks : CheckAndExecute(p)
    \/ \E p \in om_tasks, ok \in BOOLEAN : LiveCloseReturns(p, ok)
    \/ \E p \in om_tasks, ok \in BOOLEAN : LiveOpenReturns(p, ok)
    \/ Shutdown
    \/ ShutdownDisconnect
    \/ ShutdownReturns
    \/ Tick

\* the bot before start()
InitLiveUnused == InitLive({1}, {0}, FALSE)

\* ------------------------------------------------------------ backtest.py
\* Backtest.__init__ defaults slippage = 0.001 and commission = 0.0004, as
\* fractions
BacktestSlippage == [num |-> 1, den |-> 1000]
Commission == [num |-> 4, den |-> 10000]

\* Prices with slippage applied are carried in units of 1/1000 (see
\* apply_slippage); money (pnl, commission, capital, equity) is carried in
\* units of 1/MoneyScale, so that both are integers.
MoneyScale == BacktestSlippage.den * Commission.den

\* initial_capital a Backtest is constructed with, and the position_size,
\* stop_loss_pct and take_profit_pct run() is called with (0.02 and 0.05
\* are the defaults)
InitialCapitals == {10 * MoneyScale}
PositionSizes == 1..2
StopLossPcts == {[num |-> 2, den |-> 100], [num |-> 3, den |-> 4]}
TakeProfitPcts == {[num |-> 5, den |-> 100], [num |-> 2, den |-> 1]}

\* the candles of a history: those of Candles and flat candles at higher
\* prices
HighPrices == {4}
BacktestCandles ==
    Candles \cup {[high |-> x, low |-> x, close |-> x] : x \in HighPrices}

\* every candle history of at most MaxRows rows, timestamps 1, 2, ...
Frames ==
    UNION {{[i \in 1..n |-> Row(i, f[i])] : f \in [1..n -> BacktestCandles]} :
              n \in 0..MaxRows}

\* Strategy.check_stop_loss: (entry - price) / entry >= pct for LONG,
\* (price - entry) / entry >= pct for SHORT; entry_price > 0, both prices in
\* the same unit
check_stop_loss_strict(entry_price, current_price, position, stop_loss_pct) ==
    \/ /\ position = "LONG"
       /\ (entry_price - current_price) * stop_loss_pct.den
             > stop_loss_pct.num * entry_price
    \/ /\ position = "SHORT"
       /\ (current_price - entry_price) * stop_loss_pct.den
             > stop_loss_pct.num * entry_price
check_stop_loss(entry_price, current_price, position, stop_loss_pct) ==
    \/ /\ position = "LONG"
       /\ (entry_price - current_price) * stop_loss_pct.den
             >= stop_loss_pct.num * entry_price
    \/ /\ position = "SHORT"
       /\ (current_price - entry_price) * stop_loss_pct.den
             >= stop_loss_pct.num * entry_price

\* Strategy.check_take_profit
check_take_profit(entry_price, current_price, position, take_profit_pct) ==
    \/ /\ position = "LONG"
       /\ (current_price - entry_price) * take_profit_pct.den
             >= take_profit_pct.num * entry_price
    \/ /\ position = "SHORT"
       /\ (entry_price - current_price) * take_profit_pct.den
             >= take_profit_pct.num * entry_price

\* Backtest._apply_slippage
BacktestApplySlippage(price, side) ==
    apply_slippage(price, side, BacktestSlippage)

\* line 211: (entry_price + exit_price) * size * self.commission, in money
CommissionCostExitOnly(entry_price, exit_price, size) ==
    exit_price * size * Commission.num
CommissionCost(entry_price, exit_price, size) ==
    (entry_price + exit_price) * size * Commission.num

\* lines 203-208: pnl before commission, in money
GrossPnl(position, entry_price, exit_price, size) ==
    IF position = "LONG"
    THEN (exit_price - entry_price) * size * Commission.den
    ELSE (entry_price - exit_price) * size * Commission.den

\* Backtest._close_position: the capital it leaves and the trade it appends
\* (pnl_pct and duration, derived from the other fields, are left out)
ClosePositionGrossCapital(cap, position, entry_price, exit_price, size, entry_time, exit_time, reason) ==
    LET exit == BacktestApplySlippage(exit_price,
                    IF position = "LONG" THEN "SELL" ELSE "BUY")
        cost == CommissionCost(entry_price, exit, size)
        pnl == GrossPnl(position, entry_price, exit, size) - cost
    IN  [capital |-> cap + GrossPnl(position, entry_price, exit, size),
         trade |-> [position |-> position, entry_price |-> entry_price,
                    exit_price |-> exit, size |-> size, pnl |-> pnl,
                    commission |-> cost, entry_time |-> entry_time,
                    exit_time |-> exit_time, reason |-> reason]]
ClosePosition(cap, position, entry_price, exit_price, size, entry_time, exit_time, reason) ==
    LET exit == BacktestApplySlippage(exit_price,
                    IF position = "LONG" THEN "SELL" ELSE "BUY")
        cost == CommissionCost(entry_price, exit, size)
        pnl == GrossPnl(position, entry_price, exit, size) - cost
    IN  [capital |-> cap + pnl,
         trade |-> [position |-> position, entry_price |-> entry_price,
                    exit_price |-> exit, size |-> size, pnl |-> pnl,
                    commission |-> cost, entry_time |-> entry_time,
                    exit_time |-> exit_time, reason |-> reason]]

\* lines 164-168: unrealized pnl of the open position at current_price
UnrealizedPnl(position, entry_price, current_price, size) ==
    IF position = "LONG"
    THEN (current_price * BacktestSlippage.den - entry_price)
            * size * Commission.den
    ELSE IF position = "SHORT"
    THEN (entry_price - current_price * BacktestSlippage.den)
            * size * Commission.den
    ELSE 0

RECURSIVE SumPnl(_)
SumPnl(ts) == IF ts = <<>> THEN 0 ELSE Head(ts).pnl + SumPnl(Tail(ts))

\* equity_df['total_equity'].cummax() at row k
CumMax(curve, k) == SetMax({curve[j].total_equity : j \in 1..k})

\* the denominators of the divisions of _calculate_results for a report
\* with trades: total_trades (line 253), initial_capital (255), the counts
\* of winning and of losing trades where the conditional divides by them
\* (257-258), cummax (263) and the previous total_equity of pct_change
\* (267); profit_factor divides by avg_loss only when it is not 0. Those of
\* mean / std of the Sharpe ratio are behind returns.std() > 0.
DivisorsUnguarded(ts, curve, capital0) ==
    {Len(ts), capital0}
      \cup {Cardinality({i \in 1..Len(ts) : ts[i].pnl > 0})}
      \cup {Cardinality({i \in 1..Len(ts) : ts[i].pnl <= 0})}
      \cup {CumMax(curve, k) : k \in 1..Len(curve)}
      \cup {curve[k].total_equity : k \in 1..(Len(curve) - 1)}
Divisors(ts, curve, capital0) ==
    LET winning_trades == {i \in 1..Len(ts) : ts[i].pnl > 0}
        losing_trades == {i \in 1..Len(ts) : ts[i].pnl <= 0}
    IN  (IF Len(ts) > 0 THEN {Len(ts)} ELSE {})
          \cup {capital0}
          \cup (IF winning_trades # {}
                THEN {Cardinality(winning_trades)} ELSE {})
          \cup (IF losing_trades # {}
                THEN {Cardinality(losing_trades)} ELSE {})
          \cup {CumMax(curve, k) : k \in 1..Len(curve)}
          \cup {curve[k].total_equity : k \in 1..(Len(curve) - 1)}

\* Backtest._calculate_results: of a report with trades, the counts, the
\* sum and the capital are carried, and in divisors what the ratios
\* (win_rate, total_return, avg_win, avg_loss, profit_factor, max_drawdown,
\* sharpe_ratio) divide by
calculate_results(ts, curve, cap, capital0) ==
    IF ts = <<>>
    THEN [total_trades |-> 0, win_rate |-> 0, total_pnl |-> 0,
          total_return |-> 0, max_drawdown |-> 0, sharpe_ratio |-> 0,
          divisors |-> {}]
    ELSE [total_trades |-> Len(ts),
          winning_trades |-> Cardinality({i \in 1..Len(ts) : ts[i].pnl > 0}),
          losing_trades |-> Cardinality({i \in 1..Len(ts) : ts[i].pnl <= 0}),
          total_pnl |-> SumPnl(ts),
          final_capital |-> cap,
          divisors |-> Divisors(ts, curve, capital0)]

\* run() has not been called, and will be called calls times at most
NotRunning(calls) == [pc |-> "idle", calls_left |-> calls]
NoFirstRun == [recorded |-> FALSE]
NoResults == [reported |-> FALSE]

\* Backtest.run, lines 72-82: the state of the Backtest is reset and the loop
\* begins. A call after the first is made with the arguments of the first;
\* first keeps what the first call left, for comparison.
RunStart(contract_id, size, stop_loss_pct, take_profit_pct) ==
    /\ engine = "momentum"
    /\ run.calls_left > 0
    /\ \/ run.pc = "idle"
       \/ /\ run.pc = "done"
          /\ contract_id = run.contract_id
          /\ size = run.position_size
          /\ stop_loss_pct = run.stop_loss_pct
          /\ take_profit_pct = run.take_profit_pct
    /\ run' = [pc |-> "loop", calls_left |-> run.calls_left - 1,
               contract_id |-> contract_id,
               position_size |-> size, stop_loss_pct |-> stop_loss_pct,
               take_profit_pct |-> take_profit_pct, i |-> MaLong,
               current_position |-> "EMPTY", entry_price |-> 0,
               entry_time |-> 0, opened |-> 0,
               first |-> IF run.pc = "idle" THEN NoFirstRun
                         ELSE IF run.first.recorded THEN run.first
                         ELSE [recorded |-> TRUE, trades |-> trades,
                               equity_curve |-> equity_curve,
                               opened |-> run.opened,
                               results |-> results]]
    /\ capital' = initial_capital
    /\ trades' = <<>>
    /\ equity_curve' = <<>>
    /\ results' = NoResults
    /\ UNCHANGED initial_capital
    /\ UNCHANGED sigVars
    /\ UNCHANGED nonBacktestVars

\* run, lines 92-113: with a position open the stop-loss is checked, then
\* the take-profit; the reason the position is closed for, or none
RiskExitNoTakeProfit(position, entry_price, current_price, stop_loss_pct, take_profit_pct) ==
    IF position # "EMPTY"
       /\ check_stop_loss(entry_price, current_price, position, stop_loss_pct)
    THEN "stop_loss"
    ELSE "none"
RiskExit(position, entry_price, current_price, stop_loss_pct, take_profit_pct) ==
    IF position # "EMPTY"
       /\ check_stop_loss(entry_price, current_price, position, stop_loss_pct)
    THEN "stop_loss"
    ELSE IF position # "EMPTY"
            /\ check_take_profit(entry_price, current_price, position,
                                 take_profit_pct)
    THEN "take_profit"
    ELSE "none"

\* one iteration of the loop of run, lines 85-175, for the row with index
\* run.i (the rows are numbered from 0 in the code, from 1 here)
RunStep ==
    LET current_data == SubSeq(df, 1, run.i + 1)
        current_price == df[run.i + 1].close
        current_time == df[run.i + 1].ts
        pos == run.current_position
        entry_milli == run.entry_price
        price_milli == current_price * BacktestSlippage.den
        exit == RiskExit(pos, entry_milli, price_milli, run.stop_loss_pct,
                         run.take_profit_pct)
        closed(reason) == ClosePosition(capital, pos, run.entry_price,
                              current_price, run.position_size,
                              run.entry_time, current_time, reason)
        r == MomentumGenerateSignal(contract_states, run.contract_id,
                                    current_data, pos, current_price)
        flip == \/ r.signal = "LONG" /\ pos = "SHORT"
                \/ r.signal = "SHORT" /\ pos = "LONG"
        closes == \/ r.signal = "CLOSE_LONG" /\ pos = "LONG"
                  \/ r.signal = "CLOSE_SHORT" /\ pos = "SHORT"
        opens == r.signal \in {"LONG", "SHORT"}
        reason == IF pos = "SHORT" THEN "close_short" ELSE "close_long"
        new_capital == IF flip \/ closes THEN closed(reason).capital
                       ELSE capital
        new_position == IF opens THEN r.signal
                        ELSE IF closes THEN "EMPTY" ELSE pos
        new_entry == IF opens
                     THEN BacktestApplySlippage(current_price,
                              OpenSide(r.signal))
                     ELSE run.entry_price
        unrealized_pnl == UnrealizedPnl(new_position, new_entry,
                                        current_price, run.position_size)
    IN
    /\ run.pc = "loop"
    /\ run.i < Len(df)
    /\ IF exit = "stop_loss"
       THEN /\ capital' = closed("stop_loss").capital
            /\ trades' = Append(trades, closed("stop_loss").trade)
            /\ run' = [run EXCEPT !.i = @ + 1, !.current_position = "EMPTY"]
            /\ UNCHANGED <<equity_curve, contract_states>>
       ELSE IF exit = "take_profit"
       THEN /\ capital' = closed("take_profit").capital
            /\ trades' = Append(trades, closed("take_profit").trade)
            /\ run' = [run EXCEPT !.i = @ + 1, !.current_position = "EMPTY"]
            /\ UNCHANGED <<equity_curve, contract_states>>
       ELSE /\ contract_states' = r.states
            /\ capital' = new_capital
            /\ trades' = IF flip \/ closes
                         THEN Append(trades, closed(reason).trade)
                         ELSE trades
            /\ run' = [run EXCEPT
                          !.i = @ + 1,
                          !.current_position = new_position,
                          !.entry_price = new_entry,
                          !.entry_time = IF opens THEN current_time ELSE @,
                          !.opened = IF opens THEN @ + 1 ELSE @]
            /\ equity_curve' = Append(equity_curve,
                  [timestamp |-> current_time,
                   capital |-> new_capital,
                   unrealized_pnl |-> unrealized_pnl,
                   total_equity |-> new_capital + unrealized_pnl])
    /\ UNCHANGED <<initial_capital, results>>
    /\ UNCHANGED <<df, engine, signal_out, emitted>>
    /\ UNCHANGED nonBacktestVars

\* the loop has ended: lines 177-181
RunFinish ==
    /\ run.pc = "loop"
    /\ run.i >= Len(df)
    /\ results' = [reported |-> TRUE]
                     @@ calculate_results(trades, equity_curve, capital,
                                          initial_capital)
    /\ run' = [run EXCEPT !.pc = "done"]
    /\ UNCHANGED <<initial_capital, capital, trades, equity_curve>>
    /\ UNCHANGED sigVars
    /\ UNCHANGED nonBacktestVars

\* Backtest.__init__ with an initial_capital from capitals; run() will be
\* called calls times at most
InitBacktest(capitals, calls) ==
    /\ initial_capital \in capitals
    /\ capital = initial_capital
    /\ trades = <<>>
    /\ equity_curve = <<>>
    /\ run = NotRunning(calls)
    /\ results = NoResults

NextBacktest ==
    \/ \E c \in SignalContracts, size \in PositionSizes,
          sl \in StopLossPcts, tp \in TakeProfitPcts : RunStart(c, size, sl, tp)
    \/ RunStep
    \/ RunFinish

\* no Backtest is in use
InitBacktestUnused == InitBacktest({0}, 0)

\* the strategy and the candle history handed to Backtest.run
InitReplaySignal ==
    /\ df \in Frames
    /\ engine = "momentum"
    /\ contract_states = <<>>
    /\ signal_out = NoCall
    /\ emitted = [c \in SignalContracts |-> [ts \in 1..MaxRows |-> 0]]

\* ------------------------------------------- stop-loss / take-profit checks
\* the arguments of the calls: entry price, current price, percentage
CheckEntries == {100}
CheckPrices == 94..106
CheckPcts == {[num |-> 2, den |-> 100], [num |-> 5, den |-> 100]}

NoCheck == [called |-> FALSE]

\* the caller evaluates check_stop_loss (the same code in Strategy and in
\* RopeLineStrategy): nothing but the return value comes of it
CheckStopLoss(contract_id, entry_price, current_price, position, stop_loss_pct) ==
    /\ check_out' = [called |-> TRUE, op |-> "check_stop_loss",
                     contract_id |-> contract_id,
                     entry_price |-> entry_price,
                     current_price |-> current_price,
                     position |-> position, pct |-> stop_loss_pct,
                     states_before |-> contract_states,
                     result |-> check_stop_loss(entry_price, current_price,
                                                position, stop_loss_pct)]
    /\ UNCHANGED sigVars
    /\ UNCHANGED nonRiskVars

\* the caller evaluates check_take_profit
CheckTakeProfit(contract_id, entry_price, current_price, position, take_profit_pct) ==
    /\ check_out' = [called |-> TRUE, op |-> "check_take_profit",
                     contract_id |-> contract_id,
                     entry_price |-> entry_price,
                     current_price |-> current_price,
                     position |-> position, pct |-> take_profit_pct,
                     states_before |-> contract_states,
                     result |-> check_take_profit(entry_price, current_price,
                                                  position, take_profit_pct)]
    /\ UNCHANGED sigVars
    /\ UNCHANGED nonRiskVars

InitChecks == check_out = NoCheck

\* no check has been made
InitChecksUnused == InitChecks

NextChecks ==
    \/ \E c \in SignalContracts, e \in CheckEntries, p \in CheckPrices,
          pos \in Positions, pct \in CheckPcts : CheckStopLoss(c, e, p, pos, pct)
    \/ \E c \in SignalContracts, e \in CheckEntries, p \in CheckPrices,
          pos \in Positions, pct \in CheckPcts :
             CheckTakeProfit(c, e, p, pos, pct)

\* a strategy of either class before any candle, or a RopeLineStrategy that
\* has seen RopePeriod + 1 flat candles, may have evaluated them (price on
\* the line: NONE), and has then seen one candle more
EvaluatedFrame ==
    [i \in 1..(RopePeriod + 2) |-> [ts |-> i, high |-> 1, low |-> 1, close |-> 1]]
InitCheckedSignal ==
    /\ engine \in {"rope", "momentum"}
    /\ \/ /\ df = <<>>
          /\ contract_states = <<>>
       \/ /\ engine = "rope"
          /\ df = EvaluatedFrame
          /\ \E c \in SignalContracts :
                contract_states \in
                   {<<>>,
                    RopeGenerateSignal(RopePeriod, <<>>, c,
                        SubSeq(EvaluatedFrame, 1, RopePeriod + 1),
                        "EMPTY", 1).states}
    /\ signal_out = NoCall
    /\ emitted = [c \in SignalContracts |-> [ts \in 1..MaxRows |-> 0]]

\* ---------------------------------------------------- precision_manager.py
\* Prices and sizes given to the precision manager are decimals with
\* InputScale.digits digits after the point, carried as integers (1.3 is
\* 1300). A tick size is carried as the decimal str(tick_size) shows:
\* mantissa / 10^digits (0.1 is mantissa 1, digits 1). A string the manager
\* returns is carried as [units, decimals]: "67892.5" is units 678925,
\* decimals 1. The tick sizes are those str() writes in positional notation
\* (0.0001 and above), as the configured 0.1 and 0.01 are.
InputScale == [digits |-> 3]
PmPrices == {0, 1300, 67892500, 67892567}
PmSizes == {0, 12, 129, 500, 900, 1000, 1500, 2500, 2950}
TickSizes == {[mantissa |-> 1, digits |-> 1], [mantissa |-> 1, digits |-> 2],
              [mantissa |-> 5, digits |-> 1]}
SizePrecisions == {0, 1, 3}
Directions == {"down", "up"}

RECURSIVE Pow10(_)
Pow10(n) == IF n <= 0 THEN 1 ELSE 10 * Pow10(n - 1)

\* str(x) of a float: the shortest decimal, with at least one digit after
\* the point
RECURSIVE Shortest(_, _)
Shortest(units, decimals) ==
    IF decimals > 1 /\ units % 10 = 0
    THEN Shortest(units \div 10, decimals - 1)
    ELSE [units |-> units, decimals |-> decimals]
StrOf(x) == Shortest(x, InputScale.digits)

\* float(s) of a returned string, as an input of the manager
ToInput(s) == s.units * Pow10(InputScale.digits - s.decimals)

\* _get_price_precision: the digits after the point of str(tick_size)
get_price_precision(tick_size) == tick_size.digits

\* the tick size in input units
TickUnits(tick_size) ==
    tick_size.mantissa * Pow10(InputScale.digits - tick_size.digits)

\* round_price, lines 55-62: int(ticks), one more for "up" when a remainder
\* is left (price >= 0)
AlignedTicksUpAddsOne(price, tick, direction) ==
    IF direction = "down" THEN price \div tick ELSE price \div tick + 1
AlignedTicksNearest(price, tick, direction) ==
    (2 * price + tick) \div (2 * tick)
AlignedTicks(price, tick, direction) ==
    IF direction = "down"
    THEN price \div tick
    ELSE price \div tick + (IF price % tick > 0 THEN 1 ELSE 0)

\* PrecisionManager.round_price
round_price_default_tick(info, contract_id, price, direction) ==
    LET tick_size == IF contract_id \in DOMAIN info
                     THEN info[contract_id].tick_size
                     ELSE [mantissa |-> 1, digits |-> 1]
        aligned_ticks == AlignedTicks(price, TickUnits(tick_size), direction)
    IN  [units |-> aligned_ticks * tick_size.mantissa,
         decimals |-> tick_size.digits]
round_price(info, contract_id, price, direction) ==
    IF contract_id \notin DOMAIN info
    THEN StrOf(price)
    ELSE LET tick_size == info[contract_id].tick_size
             aligned_ticks == AlignedTicks(price, TickUnits(tick_size),
                                           direction)
         IN  \* tick_size * aligned_ticks has price_precision digits or
             \* fewer: the format pads, it never rounds
             [units |-> aligned_ticks * tick_size.mantissa
                          * Pow10(info[contract_id].price_precision
                                    - tick_size.digits),
              decimals |-> info[contract_id].price_precision]

\* Decimal.quantize(..., rounding=ROUND_DOWN) of units / 10^decimals to
\* digits digits (value >= 0)
QuantizeDown(units, decimals, digits) ==
    IF digits >= decimals
    THEN units * Pow10(digits - decimals)
    ELSE units \div Pow10(decimals - digits)

\* f"{d:.{precision}f}" of the Decimal units / 10^decimals: rounds half to
\* even when digits are dropped (value >= 0)
FormatFixed(units, decimals, precision) ==
    IF precision >= decimals
    THEN [units |-> units * Pow10(precision - decimals),
          decimals |-> precision]
    ELSE LET divisor == Pow10(decimals - precision)
             q == units \div divisor
             r == units % divisor
         IN  [units |-> IF 2 * r > divisor THEN q + 1
                        ELSE IF 2 * r = divisor THEN q + (q % 2)
                        ELSE q,
              decimals |-> precision]

\* line 94: the digits of '0.' + '0' * (precision - 1) + '1', which is
\* '0.1' for precision 0 as for precision 1
QuantizeDigits(precision) == IF precision <= 1 THEN 1 ELSE precision

\* PrecisionManager.round_size
round_size(info, contract_id, size) ==
    IF contract_id \notin DOMAIN info
    THEN StrOf(size)
    ELSE LET precision == info[contract_id].size_precision
             rounded_size == QuantizeDown(size, InputScale.digits,
                                          QuantizeDigits(precision))
         IN  FormatFixed(rounded_size, QuantizeDigits(precision), precision)

NoPmCall == [called |-> FALSE]

\* PrecisionManager.set_contract_info
SetContractInfo(contract_id, tick_size, size_precision) ==
    /\ contract_info' =
          (contract_id :> [tick_size |-> tick_size,
                           size_precision |-> size_precision,
                           price_precision |-> get_price_precision(tick_size)])
             @@ contract_info
    /\ pm_out' = NoPmCall
    /\ UNCHANGED nonPrecisionVars

\* a caller evaluates round_price
RoundPrice(contract_id, price, direction) ==
    /\ pm_out' = [called |-> TRUE, op |-> "round_price",
                  contract_id |-> contract_id, arg |-> price,
                  direction |-> direction,
                  info_before |-> contract_info,
                  result |-> round_price(contract_info, contract_id, price,
                                         direction)]
    /\ UNCHANGED contract_info
    /\ UNCHANGED nonPrecisionVars

\* a caller evaluates round_size
RoundSize(contract_id, size) ==
    /\ pm_out' = [called |-> TRUE, op |-> "round_size",
                  contract_id |-> contract_id, arg |-> size,
                  direction |-> "down",
                  info_before |-> contract_info,
                  result |-> round_size(contract_info, contract_id, size)]
    /\ UNCHANGED contract_info
    /\ UNCHANGED nonPrecisionVars

\* PrecisionManager.__init__
InitPrecision ==
    /\ contract_info = <<>>
    /\ pm_out = NoPmCall

\* the precision manager is not called
InitPrecisionUnused == InitPrecision

NextPrecision ==
    \/ \E c \in Contracts, t \in TickSizes, p \in SizePrecisions :
          SetContractInfo(c, t, p)
    \/ \E c \in Contracts, x \in PmPrices, d \in Directions :
          RoundPrice(c, x, d)
    \/ \E c \in Contracts, x \in PmSizes : RoundSize(c, x)

\* either strategy class, constructed once, driven by a candle feed
InitEngines ==
    /\ InitLimiterUnused
    /\ InitSignal({"rope", "momentum"})
    /\ InitOrdersUnused
    /\ InitLiveUnused
    /\ InitBacktestUnused
    /\ InitPrecisionUnused
    /\ InitChecksUnused
SpecSignal == InitEngines /\ [][NextRope \/ NextMomentum]_vars

\* acquire() called by one coroutine, one call after another
InitSeq ==
    /\ InitLimiter({1}, 1..MaxPerSecond, 1..MaxPerMinute)
    /\ InitSignal({"rope"})
    /\ InitOrdersUnused
    /\ InitLiveUnused
    /\ InitBacktestUnused
    /\ InitPrecisionUnused
    /\ InitChecksUnused
SpecSeq == InitSeq /\ [][NextLimiter]_vars

\* acquire() called by NumCallers coroutines that interleave at the awaits
InitConc ==
    /\ InitLimiter(1..NumCallers, 1..MaxPerSecond, 1..MaxPerMinute)
    /\ InitSignal({"rope"})
    /\ InitOrdersUnused
    /\ InitLiveUnused
    /\ InitBacktestUnused
    /\ InitPrecisionUnused
    /\ InitChecksUnused
SpecConc == InitConc /\ [][NextLimiter]_vars

\* execute_signal called by one coroutine, one call after another
InitLedger ==
    /\ InitLimiterUnused
    /\ InitSignal({"rope"})
    /\ InitOrderManager({1})
    /\ InitLiveUnused
    /\ InitBacktestUnused
    /\ InitPrecisionUnused
    /\ InitChecksUnused
SpecLedger == InitLedger /\ [][NextOrders]_vars

\* execute_signal called by NumTasks coroutines (one per price update that
\* crossed the line) that interleave at the awaits of client.create_order
InitOrders ==
    /\ InitLimiterUnused
    /\ InitSignal({"rope"})
    /\ InitOrderManager(1..NumTasks)
    /\ InitLiveUnused
    /\ InitBacktestUnused
    /\ InitPrecisionUnused
    /\ InitChecksUnused
SpecOrders == InitOrders /\ [][NextOrders]_vars

\* the running bot: the WebSocket thread delivers price updates, the loop
\* runs up to NumTasks evaluations that interleave at the awaits of
\* client.create_order
InitBot ==
    /\ InitLimiter(1..NumTasks, {DefaultMaxPerSecond}, {DefaultMaxPerMinute})
    /\ InitSignal({"rope"})
    /\ InitOrderManager(1..NumTasks)
    /\ InitLive(1..NumTasks, LiveRopeLines, TRUE)
    /\ InitBacktestUnused
    /\ InitPrecisionUnused
    /\ InitChecksUnused
SpecLive == InitBot /\ [][NextLive]_vars

\* Backtest.run over a candle history, with a momentum Strategy built for it
InitReplay ==
    /\ InitLimiterUnused
    /\ InitReplaySignal
    /\ InitOrdersUnused
    /\ InitLiveUnused
    /\ InitBacktest(InitialCapitals, 1)
    /\ InitPrecisionUnused
    /\ InitChecksUnused
SpecBacktest == InitReplay /\ [][NextBacktest]_vars

\* the precision manager alone: registrations and rounding calls
InitPrecisionOnly ==
    /\ InitLimiterUnused
    /\ InitSignal({"rope"})
    /\ InitOrdersUnused
    /\ InitLiveUnused
    /\ InitBacktestUnused
    /\ InitPrecision
    /\ InitChecksUnused
SpecPrecision == InitPrecisionOnly /\ [][NextPrecision]_vars

\* stop-loss and take-profit checks on a strategy that has evaluated a
\* history or not
InitRisk ==
    /\ InitLimiterUnused
    /\ InitCheckedSignal
    /\ InitOrdersUnused
    /\ InitLiveUnused
    /\ InitBacktestUnused
    /\ InitPrecisionUnused
    /\ InitChecks
SpecChecks == InitRisk /\ [][NextChecks]_vars

\* Backtest.run called twice on the same Backtest and Strategy, with the
\* same candle history and arguments
InitRerun ==
    /\ InitLimiterUnused
    /\ InitReplaySignal
    /\ InitOrdersUnused
    /\ InitLiveUnused
    /\ InitBacktest(InitialCapitals, 2)
    /\ InitPrecisionUnused
    /\ InitChecksUnused
SpecRerun == InitRerun /\ [][NextBacktest]_vars


\* acquire() called by NumCallers coroutines on a limiter with the lowest
\* limits (one call per second, one or two per minute), with which callers
\* wait on either window, while time advances: the clock keeps running, and
\* the loop resumes a coroutine whose asyncio.sleep is due; nobody calls
\* reset_stats, which acquire() does not read
InitConcWaiting ==
    /\ InitLimiter(1..NumCallers, {1}, 1..2)
    /\ InitSignal({"rope"})
    /\ InitOrdersUnused
    /\ InitLiveUnused
    /\ InitBacktestUnused
    /\ InitPrecisionUnused
    /\ InitChecksUnused
FairConc ==
    /\ WF_vars(Tick)
    /\ \A p \in 1..NumCallers : WF_vars(WakeUp(p))
SpecConcFair == InitConcWaiting /\ [][NextAcquire]_vars /\ FairConc
\* ---------------------------------------------------------------- claims

\* admissions recorded in the trailing window (t - window, t]
WindowCount(t, window) ==
    Cardinality({i \in 1..Len(admissions) :
                    admissions[i] > t - window /\ admissions[i] <= t})

\* C1: with acquire() calls made one after another, at no time does the
\* trailing per-second window hold more than max_per_second recorded
\* admissions or the trailing per-minute window more than max_per_minute.
C1_SequentialWindows ==
    \A t \in 0..now :
        /\ WindowCount(t, SecondTicks) <= max_per_second
        /\ WindowCount(t, MinuteTicks) <= max_per_minute

\* C1 witness: a call had to wait, and afterwards a per-second window and a
\* per-minute window are both filled to their ceiling.
C1_Witness ==
    /\ callers = {1}
    /\ total_delays > 0
    /\ pc[1] = "idle"
    /\ Len(admissions) > max_per_minute
    /\ WindowCount(now, SecondTicks) = max_per_second
    /\ WindowCount(now, MinuteTicks) = max_per_minute

\* C2: with several coroutines inside acquire(), every admission is decided
\* on the current window state, so the window that ends at any admission
\* holds at most max_per_second (max_per_minute) admissions of all callers.
C2_ConcurrentWindows ==
    \A i \in 1..Len(admissions) :
        /\ WindowCount(admissions[i], SecondTicks) <= max_per_second
        /\ WindowCount(admissions[i], MinuteTicks) <= max_per_minute

\* C3: the queues never hold more than their capacity, and no admission
\* timestamp leaves a queue before it is as old as the queue's window.
C3_NoEarlyEviction ==
    /\ Len(second_queue) <= max_per_second
    /\ Len(minute_queue) <= max_per_minute
    /\ \A a \in evicted.second : a >= SecondTicks
    /\ \A a \in evicted.minute : a >= MinuteTicks

\* ------------------------------------------------- claims on the signals

DefaultRopePeriod == 50

\* the reference line of the data model, doubled: highest high plus lowest
\* low of the rope_period rows that precede the last row
ReferenceLine(frame, rope_period) ==
    LET older == {i \in 1..(Len(frame) - 1) : i >= Len(frame) - rope_period}
    IN  SetMax({frame[i].high : i \in older})
          + SetMin({frame[i].low : i \in older})

ReplaceLast(frame, c) ==
    [frame EXCEPT ![Len(frame)] = Row(frame[Len(frame)].ts, c)]

\* n candles with high = low = close = v
FlatFrame(n, v) ==
    [i \in 1..n |-> [ts |-> i, high |-> v, low |-> v, close |-> v]]

\* C4: for every instrument and candle timestamp, the generate_signal calls
\* against that timestamp return a non-NONE signal at most once (either
\* strategy class, whatever price and position each call carries).
C4_OneSignalPerCandle ==
    \A c \in SignalContracts : \A ts \in 1..MaxRows : emitted[c][ts] <= 1

\* C4 witness: a candle produced its signal, the next candle produced one
\* too, and a further call on that candle, whose price and position would
\* cross again, was answered NONE.
C4_Witness ==
    /\ signal_out.called
    /\ signal_out.guarded
    /\ signal_out.signal = "NONE"
    /\ engine = "rope"
    /\ CrossingSignal(ReferenceLine(df, RopePeriod),
                      signal_out.current_position,
                      signal_out.current_price) # "NONE"
    /\ \E c \in SignalContracts :
          /\ emitted[c][Len(df)] = 1
          /\ emitted[c][Len(df) - 1] = 1

\* C5: with at least rope_period + 1 rows and no signal yet emitted for the
\* candle, RopeLineStrategy.generate_signal returns LONG for a price above
\* the line unless the position is LONG, SHORT for a price below the line
\* unless the position is SHORT, and NONE otherwise; 51 flat candles at 100
\* with a price of 101 give LONG from EMPTY and NONE from LONG.
C5_ScenarioAB ==
    /\ calculate_rope_line(FlatFrame(DefaultRopePeriod + 1, 100),
                           DefaultRopePeriod, TRUE) = 2 * 100
    /\ RopeGenerateSignal(DefaultRopePeriod, <<>>, "10000001",
                          FlatFrame(DefaultRopePeriod + 1, 100),
                          "EMPTY", 101).signal = "LONG"
    /\ RopeGenerateSignal(DefaultRopePeriod, <<>>, "10000001",
                          FlatFrame(DefaultRopePeriod + 1, 100),
                          "LONG", 101).signal = "NONE"
C5_CrossingRule ==
    /\ C5_ScenarioAB
    /\ (/\ signal_out.called
        /\ engine = "rope"
        /\ Len(df) >= RopePeriod + 1
        /\ ~signal_out.guarded)
       => LET line == ReferenceLine(df, RopePeriod)
              price == 2 * signal_out.current_price
              pos == signal_out.current_position
          IN  /\ (price > line /\ pos \in {"EMPTY", "SHORT"})
                    => signal_out.signal = "LONG"
              /\ (price > line /\ pos = "LONG") => signal_out.signal = "NONE"
              /\ (price < line /\ pos \in {"EMPTY", "LONG"})
                    => signal_out.signal = "SHORT"
              /\ (price < line /\ pos = "SHORT") => signal_out.signal = "NONE"
              /\ price = line => signal_out.signal = "NONE"

\* C5 witness: a short position met a price above the line and the call
\* returned LONG, the flip.
C5_Witness ==
    /\ signal_out.called
    /\ engine = "rope"
    /\ Len(df) >= RopePeriod + 1
    /\ ~signal_out.guarded
    /\ signal_out.current_position = "SHORT"
    /\ 2 * signal_out.current_price > ReferenceLine(df, RopePeriod)
    /\ signal_out.signal = "LONG"

\* C6: on a history of at least rope_period + 1 rows,
\* RopeLineStrategy.calculate_rope_line with the candle in progress excluded
\* is (max high + min low) / 2 over the rope_period rows before the last
\* one, and no change of the last row's high, low or close changes it.
C6_LineIgnoresLastRow ==
    Len(df) >= RopePeriod + 1 =>
        /\ calculate_rope_line(df, RopePeriod, TRUE)
              = ReferenceLine(df, RopePeriod)
        /\ \A c \in Candles :
              calculate_rope_line(ReplaceLast(df, c), RopePeriod, TRUE)
                 = calculate_rope_line(df, RopePeriod, TRUE)

\* C6 witness: the engine has evaluated a history longer than
\* rope_period + 1 whose last row would move the line if it were counted.
C6_Witness ==
    /\ engine = "rope"
    /\ signal_out.called
    /\ Len(df) > RopePeriod + 1
    /\ calculate_rope_line(df, RopePeriod, FALSE)
          # calculate_rope_line(df, RopePeriod, TRUE)
    /\ contract_states[signal_out.contract_id].rope_line
          = ReferenceLine(df, RopePeriod)

\* C7: in every evaluation, of either strategy class, the line the price is
\* compared with comes only from the rows strictly older than the last row.
C7_LineFromOlderRowsOnly ==
    (signal_out.called /\ Len(df) >= RopePeriod + 1) =>
        contract_states[signal_out.contract_id].rope_line
            = ReferenceLine(df, RopePeriod)

\* C8: OrderManager holds at most one open position per contract id, and
\* get_position answers exactly one of EMPTY, LONG, SHORT for it (EMPTY
\* exactly when nothing is held), whatever calls interleave.
C8_OnePositionPerContract ==
    \A c \in Contracts :
        /\ Cardinality({r \in positions : r.contract_id = c}) <= 1
        /\ get_position(c) \in Positions
        /\ get_position(c) = "EMPTY" <=> ~HasKey(positions, c)

\* an opening order was accepted for an instrument that already held a
\* position when the call began, while the other instrument holds one too
C8_Witness ==
    /\ returned.called
    /\ returned.result = "True"
    /\ returned.signal \in {"LONG", "SHORT"}
    /\ returned.before_position # {}
    /\ get_position(returned.contract_id) = returned.signal
    /\ \A c \in Contracts : HasKey(positions, c)

\* C9: while a flip is between its closing and its opening leg, no
\* get_position read made by another evaluation of the same instrument
\* sees EMPTY.
C9_NoFlatBetweenLegs ==
    /\ \A p \in om_tasks :
          task[p].pc # "idle" /\ task[p].read_mid_flip
              => task[p].current_position # "EMPTY"
    /\ returned.called /\ returned.read_mid_flip
          => returned.current_position # "EMPTY"

\* C10: when an order of an execute_signal call was rejected, the position
\* of the instrument and the trade history are what they were when the
\* call began, also when the order was one leg of a flip.
C10_RejectedOrderLeavesLedger ==
    returned.called /\ returned.rejected =>
        /\ {r \in positions : r.contract_id = returned.contract_id}
              = returned.before_position
        /\ Len(trade_history) = returned.before_trades

\* C11: for each instrument at most one evaluation (check_and_execute with
\* its execute_signal and its orders) is in progress at any time.
C11_OneEvaluationPerInstrument ==
    \A p, q \in om_tasks :
        /\ p # q
        /\ evals[p].stage = "running"
        /\ evals[q].stage = "running"
        => evals[p].contract_id # evals[q].contract_id


\* C12: every trade the backtest records has net pnl = gross pnl in the
\* direction of the position, on the slippage-adjusted entry and exit prices,
\* minus the commission (entry + exit) * size * rate; the report's total_pnl
\* is the sum of the net pnl of the trades and its final_capital is
\* initial_capital + total_pnl.
C12_TradeOk(t) ==
    LET entry_close == df[t.entry_time].close
        exit_close == df[t.exit_time].close
        num == BacktestSlippage.num
        den == BacktestSlippage.den
        entry == IF t.position = "LONG" THEN entry_close * (den + num)
                 ELSE entry_close * (den - num)
        exit == IF t.position = "LONG" THEN exit_close * (den - num)
                ELSE exit_close * (den + num)
        gross == IF t.position = "LONG" THEN (exit - entry) * t.size
                 ELSE (entry - exit) * t.size
    IN  /\ t.entry_price = entry
        /\ t.exit_price = exit
        /\ t.size = run.position_size
        /\ t.commission = (entry + exit) * t.size * Commission.num
        /\ t.pnl = gross * Commission.den - t.commission
C12_NetPnlAndReport ==
    /\ \A k \in 1..Len(trades) : C12_TradeOk(trades[k])
    /\ results.reported /\ results.total_trades > 0 =>
          /\ results.total_pnl = SumPnl(trades)
          /\ results.final_capital = initial_capital + results.total_pnl
    /\ results.reported /\ results.total_trades = 0 =>
          /\ results.total_pnl = 0
          /\ capital = initial_capital
C12_Witness ==
    /\ results.reported
    /\ results.total_trades > 0
    /\ results.total_pnl # 0
    /\ trades[1].position = "SHORT"

\* C13: at every point of the equity curve, the net pnl of the trades closed
\* so far plus the unrealized pnl equals total_equity - initial_capital.
C13_ClosedBy(ts) == SelectSeq(trades, LAMBDA t : t.exit_time <= ts)
C13_EquityIdentity ==
    \A k \in 1..Len(equity_curve) :
        LET e == equity_curve[k]
        IN  SumPnl(C13_ClosedBy(e.timestamp)) + e.unrealized_pnl
               = e.total_equity - initial_capital
C13_Witness ==
    \E k \in 1..Len(equity_curve) :
        /\ C13_ClosedBy(equity_curve[k].timestamp) # <<>>
        /\ equity_curve[k].unrealized_pnl # 0

\* C17: a backtest over a rising series whose price crosses the line once
\* opens exactly one trade, closes none by signal, and reports
\* total_trades = 1.
C17_Rising ==
    \A k \in 1..(Len(df) - 1) : df[k].close < df[k + 1].close
C17_RisingSeriesOneTrade ==
    /\ results.reported
    /\ C17_Rising
    /\ run.opened >= 1
    => /\ run.opened = 1
       /\ \A k \in 1..Len(trades) :
              trades[k].reason \notin {"close_long", "close_short"}
       /\ results.total_trades = 1

\* C14: for a registered instrument, whatever its lot precision (0
\* included), and a size x >= 0: round_size(x) <= x, and round_size of the
\* result is the result.
C14_RoundSizeDownIdempotent ==
    /\ pm_out.called
    /\ pm_out.op = "round_size"
    /\ pm_out.contract_id \in DOMAIN pm_out.info_before
    => /\ ToInput(pm_out.result) <= pm_out.arg
       /\ round_size(pm_out.info_before, pm_out.contract_id,
                     ToInput(pm_out.result)) = pm_out.result

\* C15: with tick size 0.1, round_price(67892.567, "down") is "67892.5" and
\* round_price(67892.567, "up") is "67892.6", exactly.
C15_Case ==
    /\ pm_out.called
    /\ pm_out.op = "round_price"
    /\ pm_out.contract_id \in DOMAIN pm_out.info_before
    /\ pm_out.info_before[pm_out.contract_id].tick_size
          = [mantissa |-> 1, digits |-> 1]
    /\ pm_out.arg = 67892567
C15_TickAlignedPrice ==
    C15_Case =>
       /\ pm_out.direction = "down"
             => pm_out.result = [units |-> 678925, decimals |-> 1]
       /\ pm_out.direction = "up"
             => pm_out.result = [units |-> 678926, decimals |-> 1]
C15_Witness == C15_Case /\ pm_out.direction = "up"

\* C16: check_stop_loss returns true exactly when the position is LONG and
\* (entry - price) / entry >= pct, or SHORT and (price - entry) / entry >=
\* pct, and false for EMPTY; (LONG, 100, 97, 0.02) is true and equality
\* triggers; check_take_profit mirrors it; neither changes any state.
C16_Loss(c) ==
    IF c.position = "LONG" THEN c.entry_price - c.current_price
    ELSE c.current_price - c.entry_price
C16_StopLossTakeProfit ==
    check_out.called =>
       /\ check_out.op = "check_stop_loss" =>
             (check_out.result <=>
                 /\ check_out.position \in {"LONG", "SHORT"}
                 /\ C16_Loss(check_out) * check_out.pct.den
                       >= check_out.pct.num * check_out.entry_price)
       /\ check_out.op = "check_take_profit" =>
             (check_out.result <=>
                 /\ check_out.position \in {"LONG", "SHORT"}
                 /\ (0 - C16_Loss(check_out)) * check_out.pct.den
                       >= check_out.pct.num * check_out.entry_price)
       /\ contract_states = check_out.states_before
C16_Witness ==
    /\ check_out.called
    /\ check_out.op = "check_stop_loss"
    /\ check_out.position = "LONG"
    /\ check_out.entry_price = 100
    /\ check_out.current_price = 98
    /\ check_out.pct = [num |-> 2, den |-> 100]
    /\ check_out.result
    /\ contract_states # <<>>

\* C20: round_price and round_size for an instrument that is not registered
\* return the input as it is, and leave the registration table unchanged.
C20_UnregisteredPassThrough ==
    /\ pm_out.called
    /\ pm_out.contract_id \notin DOMAIN pm_out.info_before
    => /\ ToInput(pm_out.result) = pm_out.arg
       /\ pm_out.result = StrOf(pm_out.arg)
       /\ contract_info = pm_out.info_before
C20_Witness ==
    /\ pm_out.called
    /\ pm_out.op = "round_price"
    /\ pm_out.contract_id \notin DOMAIN pm_out.info_before
    /\ pm_out.arg = 67892567
    /\ pm_out.info_before # <<>>

\* C18: on a history with fewer rows than the evaluation needs,
\* generate_signal returns NONE whatever the price and the position, raises
\* nothing, leaves the dedup guard alone, and a later call on enough rows
\* gives what it would have given without the short call.
C18_Needed == IF engine = "rope" THEN RopePeriod + 1 ELSE MaLong
C18_Evaluate(states, contract_id, frame, current_position, current_price) ==
    IF engine = "rope"
    THEN RopeGenerateSignal(RopePeriod, states, contract_id, frame,
                            current_position, current_price)
    ELSE MomentumGenerateSignal(states, contract_id, frame, current_position,
                                current_price)
C18_GuardOnly(states, contract_id) ==
    IF GuardOf(states, contract_id) = 0 THEN <<>>
    ELSE contract_id :> [last_signal_time |-> GuardOf(states, contract_id)]
C18_LaterFrames ==
    {df \o [i \in 1..(MaxRows - Len(df)) |-> Row(Len(df) + i, f[i])] :
        f \in [1..(MaxRows - Len(df)) -> Candles]}
C18_ShortHistoryIsNone ==
    /\ signal_out.called
    /\ Len(df) < C18_Needed
    => /\ signal_out.signal = "NONE"
       /\ ~signal_out.guard_changed
       /\ \A frame \in C18_LaterFrames, pos \in Positions, price \in Prices :
             LET c == signal_out.contract_id
                 with == C18_Evaluate(contract_states, c, frame, pos, price)
                 without == C18_Evaluate(
                               C18_GuardOnly(contract_states, c), c, frame,
                               pos, price)
             IN  /\ with.signal = without.signal
                 /\ GuardOf(with.states, c) = GuardOf(without.states, c)

\* C19: a price that is not positive is rejected by generate_signal: the
\* call returns NONE and changes nothing of the instrument's state (cached
\* price, dedup guard).
C19_NonPositivePriceRejected ==
    /\ signal_out.called
    /\ signal_out.current_price <= 0
    => /\ signal_out.signal = "NONE"
       /\ ~signal_out.changed

\* C23: every position the order manager holds has size > 0 and an entry
\* price that is a multiple of the instrument's tick size.
C23_StoredPositionOnTickGrid ==
    \A r \in positions :
        /\ r.position \in {"LONG", "SHORT"}
        /\ r.size > 0
        /\ r.entry_price % PairTickSize[r.contract_id] = 0

\* C29: LONG applied while SHORT, or SHORT while LONG, with both orders
\* accepted: the call closes the old position, appending exactly one trade
\* record for it, and then opens the new direction, which is the position
\* when the call returns.
C29_FlipCase ==
    /\ returned.called
    /\ \/ returned.signal = "LONG" /\ returned.current_position = "SHORT"
       \/ returned.signal = "SHORT" /\ returned.current_position = "LONG"
    /\ ~returned.rejected
C29_FlipClosesThenOpens ==
    C29_FlipCase =>
       /\ returned.result = "True"
       /\ returned.orders_sent = 2
       /\ Len(trade_history) = returned.before_trades + 1
       /\ LET closed == trade_history[Len(trade_history)]
              old == CHOOSE r \in returned.before_position : TRUE
          IN  /\ closed.symbol = returned.contract_id
              /\ closed.action = "CLOSE_" \o returned.current_position
              /\ closed.entry_price = old.entry_price
              /\ closed.size = old.size
              /\ HasKey(positions, returned.contract_id)
              /\ get_position(returned.contract_id) = returned.signal
              /\ closed.close_time
                    < Lookup(positions, returned.contract_id).entry_time
C29_Witness == C29_FlipCase /\ returned.signal = "SHORT"

\* C30: CLOSE_LONG applied to an instrument that is not LONG, and
\* CLOSE_SHORT to one that is not SHORT, returns False, sends no order and
\* leaves the positions and the trade history as they were.
C30_MismatchCase ==
    /\ returned.called
    /\ \/ returned.signal = "CLOSE_LONG" /\ returned.current_position # "LONG"
       \/ returned.signal = "CLOSE_SHORT"
            /\ returned.current_position # "SHORT"
C30_MismatchedCloseIsNoOp ==
    C30_MismatchCase =>
       /\ returned.result = "False"
       /\ returned.orders_sent = 0
       /\ {r \in positions : r.contract_id = returned.contract_id}
             = returned.before_position
       /\ Len(trade_history) = returned.before_trades
C30_Witness ==
    /\ C30_MismatchCase
    /\ returned.signal = "CLOSE_LONG"
    /\ returned.current_position = "SHORT"

\* C21: a second run of the backtest on the same Backtest and Strategy, with
\* the same candle series and arguments, leaves the same sequence of trades
\* and the same report as the first.
C21_RerunIsSame ==
    /\ results.reported
    /\ run.first.recorded
    => /\ trades = run.first.trades
       /\ results = run.first.results

\* C27: the report of a backtest with no closed trade has total_trades,
\* win_rate, total_pnl, total_return, max_drawdown and sharpe_ratio 0, and
\* no report divides by zero, also when every trade is a win or every trade
\* is a loss.
C27_ReportNeverDividesByZero ==
    results.reported =>
       /\ trades = <<>> =>
             /\ results.total_trades = 0
             /\ results.win_rate = 0
             /\ results.total_pnl = 0
             /\ results.total_return = 0
             /\ results.max_drawdown = 0
             /\ results.sharpe_ratio = 0
       /\ 0 \notin results.divisors
C27_Witness ==
    /\ results.reported
    /\ results.total_trades > 0
    /\ results.winning_trades = 0

\* C24: in the live loop, on every price update for an instrument with an
\* open position whose move from the entry price reaches the stop-loss or
\* the take-profit threshold, the cycle that handles the update
\* (check_and_execute) closes the position.
C24_ThresholdReached(contract_id, price) ==
    \E r \in positions :
        /\ r.contract_id = contract_id
        /\ \/ check_stop_loss(r.entry_price, price * Slippage.den,
                              r.position, ConfigStopLossPct)
           \/ check_take_profit(r.entry_price, price * Slippage.den,
                                r.position, ConfigTakeProfitPct)
C24_ThresholdClosesInCycle ==
    [][pending # <<>> /\ pending' = Tail(pending)
       /\ C24_ThresholdReached(Head(pending).contract_id,
                               Head(pending).new_price)
       => \E p \in om_tasks :
             /\ task[p].pc = "idle"
             /\ task'[p].pc = "closing"
             /\ task'[p].contract_id = Head(pending).contract_id]_vars

\* C26: in the live loop, for each instrument at most one signal is executed
\* per candle: when an executed signal is recorded for an instrument that
\* has an earlier one recorded, the two fall into different candles.
C26_OneSignalPerCandle ==
    [][\A c \in DOMAIN last_signal_time :
          c \in DOMAIN last_signal_time'
          /\ last_signal_time'[c] # last_signal_time[c]
          => LiveCandle(last_signal_time'[c])
               # LiveCandle(last_signal_time[c])]_vars

\* C22: for the same line, position and price, and no signal emitted yet for
\* the instrument, the live loop's check_and_execute decides the signal
\* RopeLineStrategy.generate_signal decides.
C22_LiveDecision ==
    IF \E p \in om_tasks : evals[p].stage = "free"
                            /\ evals'[p].stage = "running"
    THEN LET p == CHOOSE q \in om_tasks : evals[q].stage = "free"
                                          /\ evals'[q].stage = "running"
         IN  task'[p].signal
    ELSE "NONE"
C22_LiveDecidesAsEngine ==
    [][pending # <<>> /\ pending' = Tail(pending)
       /\ Head(pending).contract_id \notin DOMAIN last_signal_time
       => C22_LiveDecision =
            CrossingSignal(Head(pending).rope_line,
                           get_position(Head(pending).contract_id),
                           Head(pending).new_price)]_vars

\* C28: a call of Strategy.generate_signal that is not stopped by the
\* same-candle guard returns: LONG for mbi > 0 and price > line unless LONG
\* is held; SHORT for mbi < 0 and price < line unless SHORT is held;
\* CLOSE_LONG for mbi > 0, price < line and LONG held; CLOSE_SHORT for
\* mbi < 0, price > line and SHORT held; NONE in every other case, mbi = 0
\* (and an undefined mbi) included.
C28_Rule(mbi, above, below, current_position) ==
    IF mbi > 0 /\ above
    THEN IF current_position = "LONG" THEN "NONE" ELSE "LONG"
    ELSE IF mbi < 0 /\ below
    THEN IF current_position = "SHORT" THEN "NONE" ELSE "SHORT"
    ELSE IF mbi > 0 /\ below /\ current_position = "LONG" THEN "CLOSE_LONG"
    ELSE IF mbi < 0 /\ above /\ current_position = "SHORT"
    THEN "CLOSE_SHORT"
    ELSE "NONE"
C28_Evaluated ==
    /\ engine = "momentum"
    /\ signal_out.called
    /\ ~signal_out.guarded
    /\ signal_out.signal # "IndexError"
C28_MomentumRule ==
    C28_Evaluated =>
        LET state == contract_states[signal_out.contract_id]
            mbi == IF state.mbi_nan THEN 0 ELSE state.mbi
        IN  signal_out.signal =
              C28_Rule(mbi,
                       2 * signal_out.current_price > state.rope_line,
                       2 * signal_out.current_price < state.rope_line,
                       signal_out.current_position)
C28_Witness ==
    /\ C28_Evaluated
    /\ signal_out.signal = "CLOSE_LONG"
    /\ contract_states[signal_out.contract_id].mbi > 0

\* C25: once shutdown has begun (is_running is cleared), no price
\* notification is accepted and no evaluation is started, and when the loop
\* stops no evaluation is scheduled and no acquire() wait or order
\* submission is in flight.
C25_ShutdownBegun == ~is_running /\ loop_running
C25_InFlight(p) ==
    \/ evals[p].stage # "free"
    \/ task[p].pc # "idle"
    \/ pc[p] # "idle"
C25_CooperativeShutdown ==
    [][/\ C25_ShutdownBegun => /\ Len(pending') <= Len(pending)
                               /\ \A p \in om_tasks :
                                     evals[p].stage = "free"
                                     => evals'[p].stage = "free"
       /\ loop_running /\ ~loop_running' =>
             /\ pending = <<>>
             /\ \A p \in om_tasks : ~C25_InFlight(p)]_vars

\* C31: a call of execute_signal returns True only if every order it
\* submitted, closing leg and opening leg alike, was accepted.
C31_RejectionPropagates ==
    returned.called /\ returned.result = "True" => ~returned.rejected

\* C32: for the reference prices, the size and the slippage of a trade the
\* backtest has closed, OrderManager.close_position records the net pnl
\* that Backtest._close_position records (both in money units).
C32_LivePnl(t) ==
    TradeRecord(
        [contract_id |-> run.contract_id, position |-> t.position,
         entry_price |-> apply_slippage(df[t.entry_time].close,
                                        OpenSide(t.position), Slippage),
         size |-> t.size, entry_time |-> t.entry_time],
        apply_slippage(df[t.exit_time].close, CloseSide(t.position),
                       Slippage),
        t.exit_time).pnl * Commission.den
C32_SameNetPnl ==
    \A k \in 1..Len(trades) : trades[k].pnl = C32_LivePnl(trades[k])

\* C33: in a backtest step with an open position whose stop-loss or
\* take-profit triggers, the position is closed with that reason (stop-loss
\* first), the position becomes EMPTY, and no signal is evaluated or applied
\* for the candle: the strategy state is untouched and nothing is opened.
C33_StepWithPosition ==
    /\ run.pc = "loop"
    /\ run'.pc = "loop"
    /\ run'.i = run.i + 1
    /\ run.current_position # "EMPTY"
C33_Triggered(pct_check(_, _, _, _), pct) ==
    pct_check(run.entry_price,
              df[run.i + 1].close * BacktestSlippage.den,
              run.current_position, pct)
C33_ClosedWith(reason) ==
    /\ Len(trades') = Len(trades) + 1
    /\ trades'[Len(trades')].reason = reason
    /\ trades'[Len(trades')].position = run.current_position
    /\ trades'[Len(trades')].exit_time = df[run.i + 1].ts
    /\ run'.current_position = "EMPTY"
    /\ run'.opened = run.opened
    /\ contract_states' = contract_states
C33_RiskChecksComeFirst ==
    [][C33_StepWithPosition =>
         /\ C33_Triggered(check_stop_loss, run.stop_loss_pct)
               => C33_ClosedWith("stop_loss")
         /\ ~C33_Triggered(check_stop_loss, run.stop_loss_pct)
            /\ C33_Triggered(check_take_profit, run.take_profit_pct)
               => C33_ClosedWith("take_profit")]_vars
C33_Witness ==
    /\ run.pc = "loop"
    /\ run.current_position = "EMPTY"
    /\ Len(trades) = 1
    /\ trades[1].reason = "take_profit"
    /\ trades[1].exit_time = df[run.i].ts
    /\ equity_curve # <<>>

\* C34: Backtest.run has appended exactly one equity-curve entry for each
\* candle it has processed (the rows from index ma_long on), with the
\* timestamp of that candle, candles that closed the position by stop-loss
\* or take-profit included.
C34_EntryPerProcessedCandle ==
    run.pc \in {"loop", "done"} =>
        /\ Len(equity_curve) = run.i - MaLong
        /\ \A k \in 1..Len(equity_curve) :
              equity_curve[k].timestamp = df[MaLong + k].ts

\* C35: every order leg is preceded by its own admission: a step in which a
\* coroutine submits an order (it reaches the await of a closing or of an
\* opening order) is a step in which acquire() has recorded an admission
\* for it.
C35_Submits(p) ==
    /\ task'[p].pc \in {"closing", "opening"}
    /\ task'[p].pc # task[p].pc
C35_AdmissionPerLeg ==
    [][\A p \in om_tasks :
          C35_Submits(p) => total_requests' = total_requests + 1]_vars

\* C36: every acquire() call returns with its admission recorded, provided
\* time advances, for one caller and for several concurrent callers: a
\* caller that has to wait sleeps until the oldest entry of the binding
\* window expires, every call that sleeps until a time within the run
\* returns (or, the window re-checked, sleeps until a time beyond the run),
\* and a call that leaves acquire() has appended its admission.
C36_Sleeps(p) ==
    /\ pc'[p] \in {"sleep_second", "sleep_minute"}
    /\ pc'[p] # pc[p] \/ wake'[p] # wake[p]
C36_Returns ==
    \/ \E p \in callers : pc[p] # "idle" /\ pc'[p] = "idle"
    \/ started' # started /\ pc' = pc
C36_WaitIsExact ==
    /\ \A p \in callers :
          C36_Sleeps(p) =>
              /\ wake'[p] > now
              /\ wake'[p] = IF pc'[p] = "sleep_second"
                            THEN Head(second_queue') + SecondTicks
                            ELSE Head(minute_queue') + MinuteTicks
    /\ C36_Returns =>
          /\ total_requests' = total_requests + 1
          /\ admissions' = Append(admissions, now)
C36_AcquireReturns ==
    /\ [][C36_WaitIsExact]_vars
    /\ \A p \in 1..NumCallers :
          (pc[p] # "idle" /\ wake[p] <= MaxTime)
             ~> (pc[p] = "idle" \/ wake[p] > MaxTime)
C36_Witness ==
    /\ callers = 1..NumCallers
    /\ total_delays >= 2
    /\ started = MaxCalls
    /\ \A p \in callers : pc[p] = "idle"
    /\ total_requests = started

\* C37: for a price >= 0 on a registered instrument,
\* round_price(down) <= price <= round_price(up), both are integer
\* multiples of the tick size, they differ by no tick or by one, and both
\* equal the price when it is on the grid.
C37_RoundPriceCall ==
    /\ pm_out.called
    /\ pm_out.op = "round_price"
    /\ pm_out.contract_id \in DOMAIN pm_out.info_before
C37_Bracket(info, contract_id, price, direction, result) ==
    LET tick == TickUnits(info[contract_id].tick_size)
        other == ToInput(round_price(info, contract_id, price,
                            IF direction = "down" THEN "up" ELSE "down"))
        down == IF direction = "down" THEN ToInput(result) ELSE other
        up == IF direction = "up" THEN ToInput(result) ELSE other
    IN  /\ down <= price
        /\ price <= up
        /\ down % tick = 0
        /\ up % tick = 0
        /\ up - down \in {0, tick}
        /\ price % tick = 0 => down = price /\ up = price
C38_WaitEnds ==
    \E p \in callers : /\ pc[p] \in {"sleep_second", "sleep_minute"}
                        /\ (pc'[p] # pc[p] \/ wake'[p] # wake[p])
C38_Reset ==
    total_requests' < total_requests \/ total_delays' < total_delays
C38_BackToBack ==
    /\ started' = started + 1
    /\ Len(second_queue) >= max_per_second
    /\ now - Head(second_queue) < SecondTicks
C38_Step ==
    /\ C38_Reset =>
          /\ total_requests' = 0
          /\ total_delays' = 0
          /\ second_queue' = second_queue
          /\ minute_queue' = minute_queue
    /\ ~C38_Reset =>
          /\ total_requests' =
                total_requests + (IF C36_Returns THEN 1 ELSE 0)
          /\ total_delays' = total_delays + (IF C38_WaitEnds THEN 1 ELSE 0)
    /\ C38_BackToBack =>
          \E p \in callers : pc[p] = "idle" /\ pc'[p] = "sleep_second"
C38_CountersCount == [][C38_Step]_vars
C38_Witness ==
    /\ callers = {1}
    /\ pc[1] = "idle"
    /\ total_requests = Len(admissions)
    /\ total_requests > max_per_second
    /\ total_delays > 0
    /\ admissions[max_per_second + 1] - admissions[1] = SecondTicks

\* C39: a call of execute_signal with LONG for an instrument whose position
\* is LONG (or SHORT when it is SHORT) submits no order and leaves the
\* stored position, with its entry price, size and entry time, as it was.
C39_SameDirection ==
    /\ returned.called
    /\ returned.signal \in {"LONG", "SHORT"}
    /\ returned.current_position = returned.signal
C39_RepeatedOpenIsNoOp ==
    C39_SameDirection =>
        /\ returned.orders_sent = 0
        /\ {r \in positions : r.contract_id = returned.contract_id}
              = returned.before_position

\* C40: every step that removes a stored non-EMPTY position, or replaces it
\* by another, appends exactly one trade record for that position to
\* trade_history.
C40_Dropped(r) ==
    /\ r \in positions
    /\ r \notin positions'
C40_RecordFor(r) ==
    /\ Len(trade_history') = Len(trade_history) + 1
    /\ LET t == trade_history'[Len(trade_history')]
       IN  /\ t.symbol = r.contract_id
           /\ t.entry_price = r.entry_price
           /\ t.size = r.size
           /\ t.entry_time = r.entry_time
C40_EveryRemovalIsRecorded ==
    [][\A r \in positions : C40_Dropped(r) => C40_RecordFor(r)]_vars
====
